---- MODULE Spec2Model ----
(***************************************************************************)
(* MediAssist inference-serving core: the ModelManager resource cache      *)
(* (server/helpers.py), the per-disease input validators and the           *)
(* prediction routes (server/routes/predictions.py), started by the        *)
(* lifespan hook of server/app.py.                                         *)
(*                                                                         *)
(* The server is one process.  The lifespan hook runs preload_all() on the *)
(* main thread before any request is served; afterwards the synchronous    *)
(* route functions run on worker threads, which interleave at every        *)
(* bytecode boundary.  A cache operation is therefore split where another  *)
(* thread can be scheduled in between: the membership test, the storage    *)
(* read (os.path.exists + joblib.load, one observation of the file), the   *)
(* dict insert and the final dict lookup.                                  *)
(***************************************************************************)
EXTENDS Integers, Sequences, FiniteSets, TLC

\* ------------------------------------------------------------------ bounds
NumWorkers == 2         \* worker threads serving requests concurrently
MaxDiskOps == 1         \* changes made to the models/ directory while the server runs
MaxChanged == 2         \* fields of a valid input replaced to draw a validator input
MaxFeatures == 3        \* features of the row given to calculate_shap_values
MaxTop == 4             \* largest top_n asked of calculate_shap_values

\* --------------------------------------------------------------- constants
Diseases == {"diabetes", "heart_disease", "parkinsons"}
PreloadOrder == <<"diabetes", "heart_disease", "parkinsons">>

Main    == 0
Workers == 1..NumWorkers
Threads == {Main} \cup Workers

\* A Python object is known by its identity; None has identity 0.  An explainer
\* also carries the identity of the model it was constructed from.
None == 0
IsObj(x) == x # None
NoExplainer == [id |-> None, model |-> None]

VARIABLES
    _models,               \* ModelManager._models: dict disease -> model object
    _scalers,              \* ModelManager._scalers: dict disease -> scaler object or None
    _shap_explainers,      \* ModelManager._shap_explainers: dict disease -> explainer
    SHAP_EXPLAINER_CACHE,  \* module-level dict disease -> explainer
    modelFile,             \* models/<disease>_model.pkl exists
    scalerFile,            \* models/<disease>_scaler.pkl exists
    diskOps,               \* number of directory changes so far
    th,                    \* per thread: the running call, its position and its locals
    firstModel,            \* history: result of the first successful get_model(d) since the last clear
    firstExpl,             \* history: an explainer call for d has returned since start or the last clear
    plSaw,                 \* history: what preload_all found for each disease
    changed                \* history: diseases whose model file changed since startup began

vars == <<_models, _scalers, _shap_explainers, SHAP_EXPLAINER_CACHE,
          modelFile, scalerFile, diskOps, th, firstModel, firstExpl, plSaw, changed>>

caches == <<_models, _scalers, _shap_explainers, SHAP_EXPLAINER_CACHE>>
disk   == <<modelFile, scalerFile, diskOps>>
hist   == <<firstModel, firstExpl, plSaw, changed>>

\* ------------------------------------------------------------ dict helpers
Has(dict, k) == k \in DOMAIN dict
Put(dict, k, v) == [x \in DOMAIN dict \cup {k} |-> IF x = k THEN v ELSE dict[x]]
Empty == [x \in {} |-> None]
Entry(dict, k) == IF Has(dict, k) THEN {dict[k]} ELSE {}

\* ------------------------------------------------------------- input values
\* A value of the input mapping.  k says which Python object it is; x is its
\* numeric value counted in halves (x = 3 is 1.5), 0 when it has none.
IntV(n)   == [k |-> "int", x |-> 2 * n]
FloatV(h) == [k |-> "float", x |-> h]
StrV(h)   == [k |-> "str", x |-> h]        \* the shortest decimal numeral of h halves, as a str
Text      == [k |-> "text", x |-> 0]       \* a str that is no numeral
NaN       == [k |-> "nan", x |-> 0]        \* float('nan'), or the str "nan"
NoneValue == [k |-> "None", x |-> 0]
ListValue == [k |-> "list", x |-> 0]

Converted(v) == [err |-> "none", v |-> v]
ValueError   == [err |-> "ValueError", v |-> NoneValue]
TypeError    == [err |-> "TypeError", v |-> NoneValue]

\* float(x): numbers and numerals convert; any other str is a ValueError; None
\* and a list are a TypeError.
float(v) ==
    CASE v.k \in {"int", "float", "str"} -> Converted(FloatV(v.x))
      [] v.k = "nan" -> Converted(NaN)
      [] v.k = "text" -> ValueError
      [] OTHER -> TypeError

\* int(x) of a float truncates toward zero.
Truncated(h) == IF h % 2 = 0 THEN h ELSE IF h > 0 THEN h - 1 ELSE h + 1

\* int(x): an int is kept, a float is truncated, a str must be an integer
\* numeral ("2.5" is a ValueError), nan is a ValueError; None and a list are a
\* TypeError.
int(v) ==
    CASE v.k = "int" -> Converted(v)
      [] v.k = "float" -> Converted([k |-> "int", x |-> Truncated(v.x)])
      [] v.k = "str" -> IF v.x % 2 = 0 THEN Converted([k |-> "int", x |-> v.x]) ELSE ValueError
      [] v.k \in {"nan", "text"} -> ValueError
      [] OTHER -> TypeError

\* value < n and value > n; every comparison with nan is False.
Less(v, n)    == v.k # "nan" /\ v.x < 2 * n
Greater(v, n) == v.k # "nan" /\ v.x > 2 * n

\* --------------------------------------------------------------- validators
\* What a validator gives back: the tuple (is_valid, error_message,
\* processed_data), or the exception that left it.  The error message is kept
\* as its parts; kind and field say which check produced it.
Accepted(processed_data) ==
    [is_valid |-> TRUE, kind |-> "none", field |-> "", error_message |-> <<>>,
     processed_data |-> processed_data, raised |-> "none"]
Rejected(kind, field, error_message) ==
    [is_valid |-> FALSE, kind |-> kind, field |-> field, error_message |-> error_message,
     processed_data |-> Empty, raised |-> "none"]
Raised(exc, field) ==
    [is_valid |-> FALSE, kind |-> "none", field |-> field, error_message |-> <<>>,
     processed_data |-> Empty, raised |-> exc]
NoResult == Rejected("none", "", <<>>)

\* One check of a validator: the field, the conversion applied to data[field]
\* ("none": the check reads processed_data[field]), the bounds tested (a set
\* with the bound, or empty) and the message returned when a bound fails.
Check(f, conv, lo, hi, msg) == [f |-> f, conv |-> conv, lo |-> lo, hi |-> hi, msg |-> msg]
Nothing == {}

\* Variant: only the first missing feature is reported.
missing_featuresFirstOnly(required_features, data) ==
    LET all == SelectSeq(required_features, LAMBDA f : f \notin DOMAIN data)
    IN IF all = <<>> THEN all ELSE <<all[1]>>

\* missing_features = [f for f in required_features if f not in data]
missing_features(required_features, data) ==
    SelectSeq(required_features, LAMBDA f : f \notin DOMAIN data)

\* The body of the try block: the checks in the order the code makes them; the
\* first failing conversion or bound ends the call.  `except ValueError` turns a
\* ValueError into a rejection; a TypeError is not caught.
RECURSIVE run_checks(_, _, _, _)
run_checks(checks, i, data, processed_data) ==
    IF i > Len(checks) THEN Accepted(processed_data)
    ELSE LET c == checks[i]
             r == CASE c.conv = "float" -> float(data[c.f])
                    [] c.conv = "int" -> int(data[c.f])
                    [] OTHER -> Converted(processed_data[c.f])
         IN CASE r.err = "ValueError" -> Rejected("InvalidFormat", c.f, <<"Invalid data format: ">>)
              [] r.err = "TypeError" -> Raised("TypeError", c.f)
              [] OTHER ->
                    IF (\E n \in c.lo : Less(r.v, n)) \/ (\E n \in c.hi : Greater(r.v, n))
                    THEN Rejected("OutOfRange", c.f, c.msg)
                    ELSE run_checks(checks, i + 1, data, Put(processed_data, c.f, r.v))

\* The presence check, then the checks.
run_validator(required_features, checks, data) ==
    LET missing == missing_features(required_features, data)
    IN IF missing # <<>>
       THEN Rejected("MissingFields", "", <<"Missing required features: ">> \o missing)
       ELSE run_checks(checks, 1, data, Empty)

\* One declared field of a request schema: its type and its ge= / le= bounds.
Field(f, type, ge, le) == [f |-> f, type |-> type, ge |-> ge, le |-> le]

\* ---- diabetes
diabetes_required_features ==
    <<"AGE", "Gender", "Urea", "Cr", "HbA1c", "Chol", "TG", "HDL", "LDL", "VLDL", "BMI">>

\* Age, Gender, the loop over numeric_features, then the BMI ceiling.
diabetes_checks ==
    <<Check("AGE", "float", {0}, {120}, <<"Age must be between 0 and 120">>),
      Check("Gender", "int", {0}, {1}, <<"Gender must be 0 (Female) or 1 (Male)">>),
      Check("Urea", "float", {0}, Nothing, <<"Urea", " cannot be negative">>),
      Check("Cr", "float", {0}, Nothing, <<"Cr", " cannot be negative">>),
      Check("HbA1c", "float", {0}, Nothing, <<"HbA1c", " cannot be negative">>),
      Check("Chol", "float", {0}, Nothing, <<"Chol", " cannot be negative">>),
      Check("TG", "float", {0}, Nothing, <<"TG", " cannot be negative">>),
      Check("HDL", "float", {0}, Nothing, <<"HDL", " cannot be negative">>),
      Check("LDL", "float", {0}, Nothing, <<"LDL", " cannot be negative">>),
      Check("VLDL", "float", {0}, Nothing, <<"VLDL", " cannot be negative">>),
      Check("BMI", "float", {0}, Nothing, <<"BMI", " cannot be negative">>),
      Check("BMI", "none", Nothing, {100}, <<"BMI seems unrealistic (>100)">>)>>

validate_diabetes_input(data) == run_validator(diabetes_required_features, diabetes_checks, data)

\* class DiabetesInput(BaseModel): the declared fields, ge= and le=.
DiabetesInput ==
    <<Field("Gender", "int", {0}, {1}),
      Field("AGE", "float", {0}, {120}),
      Field("Urea", "float", {0}, Nothing),
      Field("Cr", "float", {0}, Nothing),
      Field("HbA1c", "float", {0}, Nothing),
      Field("Chol", "float", {0}, Nothing),
      Field("TG", "float", {0}, Nothing),
      Field("HDL", "float", {0}, Nothing),
      Field("LDL", "float", {0}, Nothing),
      Field("VLDL", "float", {0}, Nothing),
      Field("BMI", "float", {0}, {100})>>

\* ---- heart_disease
heart_disease_required_features ==
    <<"age", "sex", "cp", "trestbps", "chol", "fbs", "restecg", "thalach", "exang", "oldpeak", "slope", "ca", "thal">>

\* One conversion and test per field, in the order of the function body.
heart_disease_checks ==
    <<Check("age", "float", {0}, {120}, <<"Age must be between 0 and 120">>),
      Check("sex", "int", {0}, {1}, <<"Sex must be 0 (Female) or 1 (Male)">>),
      Check("cp", "int", {0}, {3}, <<"Chest pain type must be 0-3">>),
      Check("trestbps", "float", {80}, {200}, <<"Resting blood pressure seems unrealistic">>),
      Check("chol", "float", {100}, {600}, <<"Cholesterol value seems unrealistic">>),
      Check("fbs", "int", {0}, {1}, <<"Fasting blood sugar must be 0 or 1">>),
      Check("restecg", "int", {0}, {2}, <<"Resting ECG must be 0-2">>),
      Check("thalach", "float", {60}, {220}, <<"Max heart rate seems unrealistic">>),
      Check("exang", "int", {0}, {1}, <<"Exercise angina must be 0 or 1">>),
      Check("oldpeak", "float", Nothing, Nothing, <<>>),
      Check("slope", "int", {0}, {2}, <<"Slope must be 0-2">>),
      Check("ca", "int", {0}, {3}, <<"Number of vessels must be 0-3">>),
      Check("thal", "int", {0}, {3}, <<"Thalassemia must be 0-3">>)>>

validate_heart_disease_input(data) ==
    run_validator(heart_disease_required_features, heart_disease_checks, data)

\* class HeartDiseaseInput(BaseModel)
HeartDiseaseInput ==
    <<Field("age", "float", {0}, {120}),
      Field("sex", "int", {0}, {1}),
      Field("cp", "int", {0}, {3}),
      Field("trestbps", "float", {80}, {200}),
      Field("chol", "float", {100}, {600}),
      Field("fbs", "int", {0}, {1}),
      Field("restecg", "int", {0}, {2}),
      Field("thalach", "float", {60}, {220}),
      Field("exang", "int", {0}, {1}),
      Field("oldpeak", "float", Nothing, Nothing),
      Field("slope", "int", {0}, {2}),
      Field("ca", "int", {0}, {3}),
      Field("thal", "int", {0}, {3})>>

\* ---- parkinsons
parkinsons_required_features ==
    <<"Age", "Gender", "Ethnicity", "EducationLevel", "BMI",
      "Smoking", "AlcoholConsumption", "PhysicalActivity", "DietQuality", "SleepQuality",
      "FamilyHistoryParkinsons", "TraumaticBrainInjury", "Hypertension", "Diabetes", "Depression",
      "Stroke", "SystolicBP", "DiastolicBP", "CholesterolTotal", "CholesterolLDL",
      "CholesterolHDL", "CholesterolTriglycerides", "UPDRS", "MoCA", "FunctionalAssessment",
      "Tremor", "Rigidity", "Bradykinesia", "PosturalInstability", "SpeechProblems",
      "SleepDisorders", "Constipation">>

\* Age; the categorical dict; the binary list; BMI; four unchecked floats; both
\* blood pressures converted, then both tested; seven unchecked floats.
parkinsons_checks ==
    <<Check("Age", "float", {30}, {100}, <<"Age must be between 30 and 100 for Parkinson's assessment">>),
      Check("Gender", "int", {0}, {1}, <<"Gender", " must be one of ", "[0, 1]">>),
      Check("Ethnicity", "int", {0}, {3}, <<"Ethnicity", " must be one of ", "[0, 1, 2, 3]">>),
      Check("EducationLevel", "int", {0}, {3}, <<"EducationLevel", " must be one of ", "[0, 1, 2, 3]">>),
      Check("Smoking", "int", {0}, {1}, <<"Smoking", " must be 0 or 1">>),
      Check("FamilyHistoryParkinsons", "int", {0}, {1}, <<"FamilyHistoryParkinsons", " must be 0 or 1">>),
      Check("TraumaticBrainInjury", "int", {0}, {1}, <<"TraumaticBrainInjury", " must be 0 or 1">>),
      Check("Hypertension", "int", {0}, {1}, <<"Hypertension", " must be 0 or 1">>),
      Check("Diabetes", "int", {0}, {1}, <<"Diabetes", " must be 0 or 1">>),
      Check("Depression", "int", {0}, {1}, <<"Depression", " must be 0 or 1">>),
      Check("Stroke", "int", {0}, {1}, <<"Stroke", " must be 0 or 1">>),
      Check("Tremor", "int", {0}, {1}, <<"Tremor", " must be 0 or 1">>),
      Check("Rigidity", "int", {0}, {1}, <<"Rigidity", " must be 0 or 1">>),
      Check("Bradykinesia", "int", {0}, {1}, <<"Bradykinesia", " must be 0 or 1">>),
      Check("PosturalInstability", "int", {0}, {1}, <<"PosturalInstability", " must be 0 or 1">>),
      Check("SpeechProblems", "int", {0}, {1}, <<"SpeechProblems", " must be 0 or 1">>),
      Check("SleepDisorders", "int", {0}, {1}, <<"SleepDisorders", " must be 0 or 1">>),
      Check("Constipation", "int", {0}, {1}, <<"Constipation", " must be 0 or 1">>),
      Check("BMI", "float", {10}, {50}, <<"BMI seems unrealistic">>),
      Check("AlcoholConsumption", "float", Nothing, Nothing, <<>>),
      Check("PhysicalActivity", "float", Nothing, Nothing, <<>>),
      Check("DietQuality", "float", Nothing, Nothing, <<>>),
      Check("SleepQuality", "float", Nothing, Nothing, <<>>),
      Check("SystolicBP", "float", Nothing, Nothing, <<>>),
      Check("DiastolicBP", "float", Nothing, Nothing, <<>>),
      Check("SystolicBP", "none", {80}, {200}, <<"Systolic BP seems unrealistic">>),
      Check("DiastolicBP", "none", {50}, {130}, <<"Diastolic BP seems unrealistic">>),
      Check("CholesterolTotal", "float", Nothing, Nothing, <<>>),
      Check("CholesterolLDL", "float", Nothing, Nothing, <<>>),
      Check("CholesterolHDL", "float", Nothing, Nothing, <<>>),
      Check("CholesterolTriglycerides", "float", Nothing, Nothing, <<>>),
      Check("UPDRS", "float", Nothing, Nothing, <<>>),
      Check("MoCA", "float", Nothing, Nothing, <<>>),
      Check("FunctionalAssessment", "float", Nothing, Nothing, <<>>)>>

validate_parkinsons_input(data) ==
    run_validator(parkinsons_required_features, parkinsons_checks, data)

\* class ParkinsonsInput(BaseModel)
ParkinsonsInput ==
    <<Field("Age", "float", {30}, {100}),
      Field("Gender", "int", {0}, {1}),
      Field("Ethnicity", "int", {0}, {3}),
      Field("EducationLevel", "int", {0}, {3}),
      Field("BMI", "float", {10}, {50}),
      Field("Smoking", "int", {0}, {1}),
      Field("AlcoholConsumption", "float", {0}, Nothing),
      Field("PhysicalActivity", "float", {0}, Nothing),
      Field("DietQuality", "float", {0}, Nothing),
      Field("SleepQuality", "float", {0}, Nothing),
      Field("FamilyHistoryParkinsons", "int", {0}, {1}),
      Field("TraumaticBrainInjury", "int", {0}, {1}),
      Field("Hypertension", "int", {0}, {1}),
      Field("Diabetes", "int", {0}, {1}),
      Field("Depression", "int", {0}, {1}),
      Field("Stroke", "int", {0}, {1}),
      Field("SystolicBP", "float", {80}, {200}),
      Field("DiastolicBP", "float", {50}, {130}),
      Field("CholesterolTotal", "float", {0}, Nothing),
      Field("CholesterolLDL", "float", {0}, Nothing),
      Field("CholesterolHDL", "float", {0}, Nothing),
      Field("CholesterolTriglycerides", "float", {0}, Nothing),
      Field("UPDRS", "float", {0}, Nothing),
      Field("MoCA", "float", {0}, {30}),
      Field("FunctionalAssessment", "float", {0}, {10}),
      Field("Tremor", "int", {0}, {1}),
      Field("Rigidity", "int", {0}, {1}),
      Field("Bradykinesia", "int", {0}, {1}),
      Field("PosturalInstability", "int", {0}, {1}),
      Field("SpeechProblems", "int", {0}, {1}),
      Field("SleepDisorders", "int", {0}, {1}),
      Field("Constipation", "int", {0}, {1})>>

\* DiabetesInput.Config example (Cr 0.9 rounded to the half)
DiabetesExample ==
    [f \in {"Gender", "AGE", "Urea", "Cr", "HbA1c", "Chol", "TG", "HDL", "LDL", "VLDL", "BMI"} |->
        CASE f = "Gender" -> IntV(1)
          [] f = "AGE" -> IntV(45)
          [] f = "Urea" -> IntV(32)
          [] f = "Cr" -> FloatV(2)
          [] f = "HbA1c" -> FloatV(13)
          [] f = "Chol" -> IntV(200)
          [] f = "TG" -> IntV(150)
          [] f = "HDL" -> IntV(50)
          [] f = "LDL" -> IntV(120)
          [] f = "VLDL" -> IntV(30)
          [] OTHER -> FloatV(57)]

\* HeartDiseaseInput.Config example
HeartDiseaseExample ==
    [f \in {"age", "sex", "cp", "trestbps", "chol", "fbs", "restecg", "thalach", "exang", "oldpeak", "slope", "ca", "thal"} |->
        CASE f = "age" -> IntV(55)
          [] f = "sex" -> IntV(1)
          [] f = "cp" -> IntV(2)
          [] f = "trestbps" -> IntV(130)
          [] f = "chol" -> IntV(250)
          [] f = "fbs" -> IntV(0)
          [] f = "restecg" -> IntV(1)
          [] f = "thalach" -> IntV(150)
          [] f = "exang" -> IntV(0)
          [] f = "oldpeak" -> FloatV(3)
          [] f = "slope" -> IntV(1)
          [] f = "ca" -> IntV(0)
          [] OTHER -> IntV(2)]

\* ParkinsonsInput.Config example
ParkinsonsExample ==
    [f \in {"Age", "Gender", "Ethnicity", "EducationLevel", "BMI", "Smoking", "AlcoholConsumption", "PhysicalActivity", "DietQuality", "SleepQuality", "FamilyHistoryParkinsons", "TraumaticBrainInjury", "Hypertension", "Diabetes", "Depression", "Stroke", "SystolicBP", "DiastolicBP", "CholesterolTotal", "CholesterolLDL", "CholesterolHDL", "CholesterolTriglycerides", "UPDRS", "MoCA", "FunctionalAssessment", "Tremor", "Rigidity", "Bradykinesia", "PosturalInstability", "SpeechProblems", "SleepDisorders", "Constipation"} |->
        CASE f = "Age" -> IntV(65)
          [] f = "Gender" -> IntV(1)
          [] f = "Ethnicity" -> IntV(0)
          [] f = "EducationLevel" -> IntV(2)
          [] f = "BMI" -> FloatV(51)
          [] f = "Smoking" -> IntV(0)
          [] f = "AlcoholConsumption" -> FloatV(5)
          [] f = "PhysicalActivity" -> FloatV(10)
          [] f = "DietQuality" -> FloatV(14)
          [] f = "SleepQuality" -> FloatV(13)
          [] f = "FamilyHistoryParkinsons" -> IntV(0)
          [] f = "TraumaticBrainInjury" -> IntV(0)
          [] f = "Hypertension" -> IntV(1)
          [] f = "Diabetes" -> IntV(0)
          [] f = "Depression" -> IntV(0)
          [] f = "Stroke" -> IntV(0)
          [] f = "SystolicBP" -> IntV(130)
          [] f = "DiastolicBP" -> IntV(85)
          [] f = "CholesterolTotal" -> IntV(200)
          [] f = "CholesterolLDL" -> IntV(120)
          [] f = "CholesterolHDL" -> IntV(55)
          [] f = "CholesterolTriglycerides" -> IntV(150)
          [] f = "UPDRS" -> IntV(25)
          [] f = "MoCA" -> IntV(26)
          [] f = "FunctionalAssessment" -> FloatV(15)
          [] f = "Tremor" -> IntV(1)
          [] f = "Rigidity" -> IntV(0)
          [] f = "Bradykinesia" -> IntV(1)
          [] f = "PosturalInstability" -> IntV(0)
          [] f = "SpeechProblems" -> IntV(0)
          [] f = "SleepDisorders" -> IntV(1)
          [] OTHER -> IntV(0)]

\* ------------------------------------------------------ dispatch per disease
required_features(d) ==
    CASE d = "diabetes" -> diabetes_required_features
      [] d = "heart_disease" -> heart_disease_required_features
      [] OTHER -> parkinsons_required_features

\* The validator each route calls.
validate(d, data) ==
    CASE d = "diabetes" -> validate_diabetes_input(data)
      [] d = "heart_disease" -> validate_heart_disease_input(data)
      [] OTHER -> validate_parkinsons_input(data)

checks_of(d) ==
    CASE d = "diabetes" -> diabetes_checks
      [] d = "heart_disease" -> heart_disease_checks
      [] OTHER -> parkinsons_checks

\* The request schema of each route.
InputSchema(d) ==
    CASE d = "diabetes" -> DiabetesInput
      [] d = "heart_disease" -> HeartDiseaseInput
      [] OTHER -> ParkinsonsInput

Example(d) ==
    CASE d = "diabetes" -> DiabetesExample
      [] d = "heart_disease" -> HeartDiseaseExample
      [] OTHER -> ParkinsonsExample

Declared(d, f) == CHOOSE s \in {InputSchema(d)[i] : i \in 1..Len(InputSchema(d))} : s.f = f

\* The columns of each training dataset as the preprocessing documents them (for
\* parkinsons the leading columns it lists), the columns dropped before the
\* scaler and the model are fit, and the columns they are fit on.
diabetes_dataset_columns ==
    <<"ID", "No_Pation", "Gender", "AGE", "Urea", "Cr", "HbA1c", "Chol", "TG", "HDL", "LDL", "VLDL", "BMI", "CLASS">>
heart_disease_dataset_columns ==
    <<"age", "sex", "cp", "trestbps", "chol", "fbs", "restecg", "thalach", "exang", "oldpeak", "slope", "ca", "thal", "target">>
parkinsons_dataset_columns ==
    <<"PatientID", "Age", "Gender", "Ethnicity", "EducationLevel", "BMI",
      "Smoking", "AlcoholConsumption", "PhysicalActivity", "DietQuality", "SleepQuality">>

dataset_columns(d) ==
    CASE d = "diabetes" -> diabetes_dataset_columns
      [] d = "heart_disease" -> heart_disease_dataset_columns
      [] OTHER -> parkinsons_dataset_columns

Dropped(d) ==
    CASE d = "diabetes" -> {"ID", "No_Pation", "CLASS"}
      [] d = "heart_disease" -> {"target"}
      [] OTHER -> {"PatientID", "DoctorInCharge", "Diagnosis"}

fit_columns(d) == SelectSeq(dataset_columns(d), LAMBDA c : c \notin Dropped(d))

\* Variant: the diabetes route lists AGE before Gender.
diabetes_feature_orderAgeFirst ==
    <<"AGE", "Gender", "Urea", "Cr", "HbA1c", "Chol", "TG", "HDL", "LDL", "VLDL", "BMI">>

\* feature_order of each route: the columns of the row given to the model.
diabetes_feature_order ==
    <<"Gender", "AGE", "Urea", "Cr", "HbA1c", "Chol", "TG", "HDL", "LDL", "VLDL", "BMI">>
heart_disease_feature_order ==
    <<"age", "sex", "cp", "trestbps", "chol", "fbs", "restecg", "thalach", "exang", "oldpeak", "slope", "ca", "thal">>
parkinsons_feature_order ==
    <<"Age", "Gender", "Ethnicity", "EducationLevel", "BMI", "Smoking",
      "AlcoholConsumption", "PhysicalActivity", "DietQuality", "SleepQuality",
      "FamilyHistoryParkinsons", "TraumaticBrainInjury", "Hypertension",
      "Diabetes", "Depression", "Stroke", "SystolicBP", "DiastolicBP",
      "CholesterolTotal", "CholesterolLDL", "CholesterolHDL", "CholesterolTriglycerides",
      "UPDRS", "MoCA", "FunctionalAssessment", "Tremor", "Rigidity",
      "Bradykinesia", "PosturalInstability", "SpeechProblems", "SleepDisorders", "Constipation">>

feature_order(d) ==
    CASE d = "diabetes" -> diabetes_feature_order
      [] d = "heart_disease" -> heart_disease_feature_order
      [] OTHER -> parkinsons_feature_order

\* ------------------------------------------------------------ inputs drawn
\* The values tried for one field: each declared bound, one unit outside it,
\* half a unit above the upper bound, a numeral given as a str, and the
\* objects no conversion accepts.  Absent removes the key.
Absent == [k |-> "absent", x |-> 0]

Probes(d, f) ==
    LET s == Declared(d, f) IN
    {IntV(n - 1) : n \in s.ge} \cup {IntV(n) : n \in s.ge}
    \cup {IntV(n) : n \in s.le} \cup {IntV(n + 1) : n \in s.le}
    \cup {FloatV(2 * n + 1) : n \in s.le}
    \cup {StrV(Example(d)[f].x), Text, NaN, NoneValue, ListValue, Absent}

WithField(data, f, v) ==
    IF v = Absent THEN [g \in DOMAIN data \ {f} |-> data[g]] ELSE [data EXCEPT ![f] = v]

\* A choice of changes: for each of MaxChanged rounds, a position of
\* required_features and a value for the field there, or position 0 for no
\* change; positions are taken in increasing order, so that a set of changed
\* fields is drawn once.
Changes(d) ==
    {c \in [1..MaxChanged -> {<<0, Absent>>} \cup
                             UNION {{<<i, v>> : v \in Probes(d, required_features(d)[i])} :
                                       i \in 1..Len(required_features(d))}] :
        \A k \in 1..(MaxChanged - 1) : c[k][1] = 0 \/ c[k][1] < c[k + 1][1]}

\* The input mapping after the first k changes of c were made to the example.
RECURSIVE Apply(_, _, _)
Apply(d, c, k) ==
    IF k = 0 THEN Example(d)
    ELSE IF c[k][1] = 0 THEN Apply(d, c, k - 1)
         ELSE WithField(Apply(d, c, k - 1), required_features(d)[c[k][1]], c[k][2])

\* A key of the input that no schema declares, and the mappings with and
\* without it.
Undeclared == "patient_name"
WithExtras(data, extras) ==
    [g \in DOMAIN data \cup extras |-> IF g \in DOMAIN data THEN data[g] ELSE Text]

\* ------------------------------------------------------- object identities
\* Every entry now held by one of the four dicts, tagged with the dict's kind.
Cached ==
    {[kind |-> "model", d |-> d, id |-> _models[d]] : d \in DOMAIN _models}
    \cup {[kind |-> "scaler", d |-> d, id |-> _scalers[d]] : d \in DOMAIN _scalers}
    \cup {[kind |-> "explainer", d |-> d, id |-> _shap_explainers[d].id] : d \in DOMAIN _shap_explainers}
    \cup {[kind |-> "explainer", d |-> d, id |-> SHAP_EXPLAINER_CACHE[d].id] : d \in DOMAIN SHAP_EXPLAINER_CACHE}

Snapped(kind, d) == {x.id : x \in {y \in UNION {th[t].snap : t \in Threads} : y.kind = kind /\ y.d = d}}
Explainers(d) ==
    Entry(_shap_explainers, d) \cup Entry(SHAP_EXPLAINER_CACHE, d)
    \cup {th[t].e : t \in {u \in Threads : th[u].d = d}}
ModelIds(d) ==
    Entry(_models, d) \cup {firstModel[d]} \cup Snapped("model", d)
    \cup {th[t].m : t \in {u \in Threads : th[u].d = d}}
    \cup {th[t].tmp : t \in {u \in Threads : th[u].d = d /\ th[u].pc = "gm_insert"}}
    \cup {x.model : x \in Explainers(d)}
ScalerIds(d) ==
    Entry(_scalers, d) \cup Snapped("scaler", d)
    \cup {th[t].s : t \in {u \in Threads : th[u].d = d}}
    \cup {th[t].tmp : t \in {u \in Threads : th[u].d = d /\ th[u].pc = "gs_insert"}}
ExplainerIds(d) == {x.id : x \in Explainers(d)} \cup Snapped("explainer", d)
\* joblib.load and shap.Explainer return an object distinct from every live one.
Fresh(live) == CHOOSE n \in 1..(Cardinality(live) + 1) :
                   n \notin live /\ \A k \in 1..(n - 1) : k \in live

\* -------------------------------------------------------- response formatter
\* Probabilities are counted in thirds of a ten-thousandth: Scale is the
\* precision of the "probability" entry of the response, Fine the number of
\* values the model tells apart within one step of it.
Scale == 10000
Fine == 3
Unit == Scale * Fine
Probabilities == 0..Unit

\* round(x, ndigits) for x counted in units of which `step` make one step of
\* the result: the nearest step, a tie going to the even one.
round(x, step) ==
    LET n == x \div step
        rem == x % step
    IN IF 2 * rem > step \/ (2 * rem = step /\ n % 2 = 1) THEN n + 1 ELSE n

Tiers == {"High", "Moderate", "Low"}

\* One message: its wording and the percentage it embeds ({probability*100:.1f},
\* counted in tenths of a percent; 0 when the wording embeds none).
Message(text, pct) == [text |-> text, pct |-> pct, raised |-> "none"]

\* The dict `messages`: the wording for each disease and tier.
messages ==
    [d \in Diseases |->
       [l \in Tiers |->
          CASE d = "diabetes" /\ l = "High" -> "High risk of diabetes detected. Immediate consultation"
            [] d = "diabetes" /\ l = "Moderate" -> "Moderate risk of diabetes. Consider lifestyle modifications"
            [] d = "diabetes" /\ l = "Low" -> "Low risk of diabetes. Continue maintaining a healthy lifestyle"
            [] d = "heart_disease" /\ l = "High" -> "High risk of heart disease detected. Seek immediate medical attention"
            [] d = "heart_disease" /\ l = "Moderate" -> "Moderate risk of heart disease. Schedule a consultation"
            [] d = "heart_disease" /\ l = "Low" -> "Low risk of heart disease. Maintain heart-healthy habits"
            [] d = "parkinsons" /\ l = "High" -> "High likelihood of Parkinson's disease. Consult with a neurologist"
            [] d = "parkinsons" /\ l = "Moderate" -> "Moderate indicators for Parkinson's disease. Neurological assessment"
            [] OTHER -> "Low risk of Parkinson's disease. Continue monitoring"]]

GenericMessage == Message("Assessment complete. Please consult with a healthcare provider.", 0)

\* Variant: messages[disease_name][risk_level], a KeyError outside the table.
get_risk_messageIndexed(disease_name, risk_level, probability) ==
    IF disease_name \in DOMAIN messages /\ risk_level \in DOMAIN messages[disease_name]
    THEN Message(messages[disease_name][risk_level], round(probability, 10 * Fine))
    ELSE [GenericMessage EXCEPT !.text = "", !.raised = "KeyError"]

\* messages.get(disease_name, {}).get(risk_level, <the generic message>)
get_risk_message(disease_name, risk_level, probability) ==
    IF disease_name \in DOMAIN messages /\ risk_level \in DOMAIN messages[disease_name]
    THEN Message(messages[disease_name][risk_level], round(probability, 10 * Fine))
    ELSE GenericMessage

Response(disease, has_disease, disease_detected, confidence, probability, level, color, message) ==
    [success |-> TRUE, disease |-> disease, has_disease |-> has_disease,
     disease_detected |-> disease_detected, confidence |-> confidence,
     probability |-> probability, level |-> level, color |-> color, message |-> message]
NoResponse == [Response("", 0, FALSE, 0, 0, "", "", GenericMessage) EXCEPT !.success = FALSE]

\* Variant: the confidence is cut to two decimals instead of rounded.
FormattedCut(prediction, has_disease_prob, disease, level, color) ==
    Response(disease, prediction, prediction # 0,
             has_disease_prob \div Fine, round(has_disease_prob, Fine),
             level, color, get_risk_message(disease, level, has_disease_prob))

\* The response for a tier: has_disease = int(prediction), disease_detected =
\* bool(prediction), confidence = round(has_disease_prob * 100, 2) in hundredths
\* of a percent, probability = round(has_disease_prob, 4) in ten-thousandths.
Formatted(prediction, has_disease_prob, disease, level, color) ==
    Response(disease, prediction, prediction # 0,
             round(has_disease_prob, Fine), round(has_disease_prob, Fine),
             level, color, get_risk_message(disease, level, has_disease_prob))

\* Variant: the High tier starts above 0.7.
format_prediction_responseAbove(prediction, probability, disease) ==
    LET has_disease_prob == probability[2]
    IN IF 10 * has_disease_prob > 7 * Unit
       THEN Formatted(prediction, has_disease_prob, disease, "High", "red")
       ELSE IF 10 * has_disease_prob >= 4 * Unit
            THEN Formatted(prediction, has_disease_prob, disease, "Moderate", "orange")
            ELSE Formatted(prediction, has_disease_prob, disease, "Low", "green")

\* has_disease_prob = float(probability[1]) (the second entry of the pair);
\* >= 0.7 High, red; elif >= 0.4 Moderate, orange; else Low, green.
format_prediction_response(prediction, probability, disease) ==
    LET has_disease_prob == probability[2]
    IN IF 10 * has_disease_prob >= 7 * Unit
       THEN Formatted(prediction, has_disease_prob, disease, "High", "red")
       ELSE IF 10 * has_disease_prob >= 4 * Unit
            THEN Formatted(prediction, has_disease_prob, disease, "Moderate", "orange")
            ELSE Formatted(prediction, has_disease_prob, disease, "Low", "green")

\* ------------------------------------------------------ feature attributions
\* Attributions are counted in the units of a probability; impact and raw_value
\* are rounded to four decimals.
abs(x) == IF x >= 0 THEN x ELSE -x
\* round(float(value), 4) of a signed value.
rounded(x) == IF x >= 0 THEN round(x, Fine) ELSE -round(-x, Fine)

Min(a, b) == IF a <= b THEN a ELSE b

\* Variant: the direction is taken from value >= 0.
feature_importanceZeroIncreases(feature_names, values) ==
    [i \in 1..Min(Len(feature_names), Len(values)) |->
        [feature |-> feature_names[i],
         impact |-> round(abs(values[i]), Fine),
         raw_value |-> rounded(values[i]),
         direction |-> IF values[i] >= 0 THEN "increases risk" ELSE "decreases risk"]]

\* for name, value in zip(feature_names, values): one entry each.
feature_importance(feature_names, values) ==
    [i \in 1..Min(Len(feature_names), Len(values)) |->
        [feature |-> feature_names[i],
         impact |-> round(abs(values[i]), Fine),
         raw_value |-> rounded(values[i]),
         direction |-> IF values[i] > 0 THEN "increases risk" ELSE "decreases risk"]]

\* list.sort(key=impact, reverse=True): descending, entries of equal impact
\* keeping their order.
RECURSIVE sort(_)
sort(entries) ==
    IF entries = <<>> THEN <<>>
    ELSE LET init == sort(SubSeq(entries, 1, Len(entries) - 1))
             x == entries[Len(entries)]
             k == Cardinality({i \in 1..Len(init) : init[i].impact >= x.impact})
         IN SubSeq(init, 1, k) \o <<x>> \o SubSeq(init, k + 1, Len(init))

\* Variant: the list is cut before it is sorted.
rankedCutFirst(feature_names, values, top_n) ==
    LET all == feature_importance(feature_names, values)
    IN sort(IF top_n >= 0 THEN SubSeq(all, 1, Min(top_n, Len(all)))
            ELSE SubSeq(all, 1, Len(all) + top_n))

\* feature_importance.sort(...); return feature_importance[:top_n]
ranked(feature_names, values, top_n) ==
    LET all == sort(feature_importance(feature_names, values))
    IN IF top_n >= 0 THEN SubSeq(all, 1, Min(top_n, Len(all)))
       ELSE SubSeq(all, 1, Len(all) + top_n)

\* ------------------------------------------------------------ thread state
Rest == [op |-> "none", pc |-> "done", d |-> "diabetes", i |-> 0, out |-> "none",
         err |-> "none", row |-> "none", tmp |-> None, m |-> None, s |-> None, e |-> NoExplainer, snap |-> {},
         read |-> FALSE, sawAbsent |-> FALSE, after |-> FALSE,
         quiet |-> FALSE, clr |-> FALSE, built |-> FALSE,
         data |-> Empty, res |-> NoResult,
         detail |-> <<>>, steps |-> <<>>, columns |-> <<>>, transforms |-> 0,
         labelRow |-> "none", probaRow |-> "none",
         prediction |-> 0, probability |-> <<>>, response |-> NoResponse,
         tier |-> "", message |-> GenericMessage,
         feature_names |-> <<>>, values |-> <<>>, top_n |-> 3, ranked |-> <<>>,
         again |-> NoResult]

Serving == th[Main].pc = "done"
Loading(d) == \E t \in Threads : th[t].d = d /\ th[t].pc \in {"gm_load", "gm_insert"}

\* ----------------------------------------------------------------- get_model
\* Variant: the membership test is skipped, every call goes to storage.
EnterGetModelAlwaysLoads(r) ==
    [r EXCEPT !.pc = "gm_load",
              !.after = r.op = "get_model" /\ IsObj(firstModel[r.d]),
              !.quiet = r.op = "get_model" /\ Has(_models, r.d) /\ ~Loading(r.d),
              !.clr = FALSE, !.read = FALSE, !.sawAbsent = FALSE,
              !.tmp = None, !.m = None]

\* The call is entered and tests `disease_name not in self._models`.
EnterGetModel(r) ==
    [r EXCEPT !.pc = IF Has(_models, r.d) THEN "gm_return" ELSE "gm_load",
              !.after = r.op = "get_model" /\ IsObj(firstModel[r.d]),
              !.quiet = r.op = "get_model" /\ Has(_models, r.d) /\ ~Loading(r.d),
              !.clr = FALSE, !.read = FALSE, !.sawAbsent = FALSE,
              !.tmp = None, !.m = None]

\* The call is entered and tests `disease_name not in self._scalers`.
EnterGetScaler(r) ==
    [r EXCEPT !.pc = IF Has(_scalers, r.d) THEN "gs_return" ELSE "gs_load",
              !.clr = FALSE, !.read = FALSE, !.sawAbsent = FALSE,
              !.tmp = None, !.s = None]

\* -------------------------------------------------------------- preload_all
\* for disease in diseases: try: get_model; get_scaler   except Exception: print
PreloadNext(r) ==
    IF r.i < Len(PreloadOrder)
    THEN EnterGetModel([r EXCEPT !.i = r.i + 1, !.d = PreloadOrder[r.i + 1], !.s = None])
    ELSE [Rest EXCEPT !.op = "preload", !.i = r.i, !.d = r.d, !.out = "ok"]

\* ----------------------------------------------- how a cache call comes back
\* In a route: except Exception as e: raise HTTPException(status_code=500, detail=str(e))
ServerError(r, e) == [r EXCEPT !.pc = "done", !.out = "500", !.err = e, !.detail = <<e>>]

\* Variant: preload_all without its try/except, the exception ends the preload.
AfterGetModelUncaught(r, out, obj) ==
    CASE r.op = "preload" /\ out = "ok" -> EnterGetScaler([r EXCEPT !.m = obj])
      [] r.op = "predict" ->
            IF out = "ok"
            THEN EnterGetScaler([r EXCEPT !.m = obj, !.steps = Append(r.steps, "load_scaler")])
            ELSE ServerError(r, out)
      [] OTHER -> [r EXCEPT !.pc = "done", !.out = out, !.m = obj]

\* get_model returned obj (out = "ok") or raised `out`, to whoever called it.
AfterGetModel(r, out, obj) ==
    CASE r.op = "preload" ->
            IF out = "ok" THEN EnterGetScaler([r EXCEPT !.m = obj]) ELSE PreloadNext(r)
      [] r.op = "predict" ->
            IF out = "ok"
            THEN EnterGetScaler([r EXCEPT !.m = obj, !.steps = Append(r.steps, "load_scaler")])
            ELSE ServerError(r, out)
      [] OTHER -> [r EXCEPT !.pc = "done", !.out = out, !.m = obj]

\* get_scaler returned obj (a scaler or None) or raised `out`, to whoever called it.
AfterGetScaler(r, out, obj) ==
    CASE r.op = "preload" -> PreloadNext(r)
      [] r.op = "predict" ->
            IF out = "ok" THEN [r EXCEPT !.s = obj, !.pc = "pr_infer"] ELSE ServerError(r, out)
      [] OTHER -> [r EXCEPT !.pc = "done", !.out = out, !.s = obj]

\* Variant: a missing model file yields a fallback (None) instead of an exception.
MissingModelFallback(r) == AfterGetModel([r EXCEPT !.sawAbsent = TRUE], "ok", None)

\* What a missing model file does to the call: FileNotFoundError, nothing cached.
MissingModel(r) == AfterGetModel([r EXCEPT !.sawAbsent = TRUE], "FileNotFoundError", None)

\* if not os.path.exists(model_path): raise FileNotFoundError; joblib.load(model_path)
get_model_load(t) ==
    LET r == th[t] IN
    /\ r.pc = "gm_load"
    /\ th' = [th EXCEPT ![t] =
                IF modelFile[r.d]
                THEN [r EXCEPT !.tmp = Fresh(ModelIds(r.d)), !.read = TRUE, !.pc = "gm_insert"]
                ELSE MissingModel(r)]
    /\ plSaw' = IF r.op = "preload"
                THEN [plSaw EXCEPT ![r.d] = IF modelFile[r.d] THEN "present" ELSE "absent"]
                ELSE plSaw
    /\ UNCHANGED <<caches, disk, firstModel, firstExpl, changed>>

\* self._models[disease_name] = <the loaded object>
get_model_insert(t) ==
    LET r == th[t] IN
    /\ r.pc = "gm_insert"
    /\ _models' = Put(_models, r.d, r.tmp)
    /\ th' = [th EXCEPT ![t] = [r EXCEPT !.tmp = None, !.pc = "gm_return"]]
    /\ UNCHANGED <<_scalers, _shap_explainers, SHAP_EXPLAINER_CACHE, disk, hist>>

\* return self._models[disease_name]
get_model_return(t) ==
    LET r == th[t] IN
    /\ r.pc = "gm_return"
    /\ IF Has(_models, r.d)
       THEN /\ firstModel' = IF IsObj(firstModel[r.d]) THEN firstModel
                             ELSE [firstModel EXCEPT ![r.d] = _models[r.d]]
            /\ th' = [th EXCEPT ![t] = AfterGetModel(r, "ok", _models[r.d])]
       ELSE /\ firstModel' = firstModel
            /\ th' = [th EXCEPT ![t] = AfterGetModel(r, "KeyError", None)]
    /\ UNCHANGED <<caches, disk, firstExpl, plSaw, changed>>

\* ---------------------------------------------------------------- get_scaler
\* Variant: a missing scaler file raises, as a missing model file does.
MissingScalerRaises(r) == AfterGetScaler([r EXCEPT !.sawAbsent = TRUE], "FileNotFoundError", None)

\* What a missing scaler file does to the call: None is to be cached, no exception.
MissingScaler(r) == [r EXCEPT !.tmp = None, !.sawAbsent = TRUE, !.pc = "gs_insert"]

\* if os.path.exists(scaler_path): joblib.load(scaler_path)   else: None
get_scaler_load(t) ==
    LET r == th[t] IN
    /\ r.pc = "gs_load"
    /\ th' = [th EXCEPT ![t] =
                IF scalerFile[r.d]
                THEN [r EXCEPT !.tmp = Fresh(ScalerIds(r.d)), !.read = TRUE, !.pc = "gs_insert"]
                ELSE MissingScaler(r)]
    /\ UNCHANGED <<caches, disk, hist>>

\* self._scalers[disease_name] = <the loaded object, or None>
get_scaler_insert(t) ==
    LET r == th[t] IN
    /\ r.pc = "gs_insert"
    /\ _scalers' = Put(_scalers, r.d, r.tmp)
    /\ th' = [th EXCEPT ![t] = [r EXCEPT !.tmp = None, !.pc = "gs_return"]]
    /\ UNCHANGED <<_models, _shap_explainers, SHAP_EXPLAINER_CACHE, disk, hist>>

\* return self._scalers[disease_name]
get_scaler_return(t) ==
    LET r == th[t] IN
    /\ r.pc = "gs_return"
    /\ th' = [th EXCEPT ![t] = IF Has(_scalers, r.d)
                               THEN AfterGetScaler(r, "ok", _scalers[r.d])
                               ELSE AfterGetScaler(r, "KeyError", None)]
    /\ UNCHANGED <<caches, disk, hist>>

\* ------------------------------------------------------------ validator call
\* Variant: the validator writes each converted value back into the mapping it
\* was given.
validate_callInPlace(t) ==
    LET r == th[t]
        res == validate(r.d, r.data)
    IN
    /\ r.pc = "va_check"
    /\ th' = [th EXCEPT ![t] =
                [r EXCEPT !.res = res, !.pc = "done",
                          !.data = [f \in DOMAIN r.data |->
                                      IF Has(res.processed_data, f) THEN res.processed_data[f]
                                      ELSE r.data[f]]]]
    /\ UNCHANGED <<caches, disk, hist>>

\* validate_<disease>_input(data): the call runs on the caller's thread and
\* touches nothing but its arguments.
validate_call(t) ==
    LET r == th[t] IN
    /\ r.pc = "va_check"
    /\ th' = [th EXCEPT ![t] = [r EXCEPT !.res = validate(r.d, r.data), !.pc = "done"]]
    /\ UNCHANGED <<caches, disk, hist>>

\* validate_<disease>_input(processed_data): the mapping an accepting call
\* returned is given to the same validator.
validate_again(t) ==
    LET r == th[t] IN
    /\ r.op = "validate" /\ r.pc = "done"
    /\ r.res.is_valid
    /\ r.again = NoResult
    /\ th' = [th EXCEPT ![t] = [r EXCEPT !.again = validate(r.d, r.res.processed_data)]]
    /\ UNCHANGED <<caches, disk, hist>>

\* ------------------------------------------------------------ formatter call
\* format_prediction_response(prediction, probability, disease): the call runs
\* on the caller's thread and touches nothing but its arguments.
format_call(t) ==
    LET r == th[t] IN
    /\ r.pc = "fm_call"
    /\ th' = [th EXCEPT ![t] =
                [r EXCEPT !.response = format_prediction_response(r.prediction, r.probability, r.d),
                          !.pc = "done"]]
    /\ UNCHANGED <<caches, disk, hist>>

\* get_risk_message(disease_name, risk_level, probability), called on its own.
risk_message_call(t) ==
    LET r == th[t] IN
    /\ r.pc = "rm_call"
    /\ th' = [th EXCEPT ![t] =
                [r EXCEPT !.message = get_risk_message(r.d, r.tier, r.probability[2]),
                          !.pc = "done"]]
    /\ UNCHANGED <<caches, disk, hist>>

\* ------------------------------------------------------------ predict routes
\* Variant: the HTTPException of a rejection is caught by `except Exception`
\* like any other exception.
BadRequestCaught(r, res) == ServerError([r EXCEPT !.res = res], "HTTPException")

\* if not is_valid: raise HTTPException(status_code=400, detail=error_message),
\* which `except HTTPException: raise` lets through.
BadRequest(r, res) ==
    [r EXCEPT !.res = res, !.pc = "done", !.out = "400", !.err = "validation",
              !.detail = res.error_message]

\* The head of a route: the validator is called on the body; a rejection is the
\* 400 response, an exception of the validator is caught by `except Exception`,
\* and an accepted body goes on to load_model.
Request(r) ==
    LET res == validate(r.d, r.data)
        q == [r EXCEPT !.res = res, !.steps = <<"validate">>]
    IN CASE res.raised # "none" -> ServerError(q, res.raised)
         [] ~res.is_valid -> BadRequest(q, res)
         [] OTHER -> EnterGetModel([q EXCEPT !.steps = <<"validate", "load_model">>])

predict_validate(t) ==
    LET r == th[t] IN
    /\ r.pc = "pr_validate"
    /\ th' = [th EXCEPT ![t] = Request(r)]
    /\ UNCHANGED <<caches, disk, hist>>

\* Variant: the scaler is applied to the row given to predict only; predict_proba
\* gets the row as assembled.
InferenceProbaUnscaled(r) ==
    [r EXCEPT !.columns = feature_order(r.d),
              !.row = IF IsObj(r.s) THEN "scaled" ELSE "raw",
              !.transforms = IF IsObj(r.s) THEN 1 ELSE 0,
              !.labelRow = IF IsObj(r.s) THEN "scaled" ELSE "raw",
              !.probaRow = "raw",
              !.steps = r.steps \o <<"frame">> \o (IF IsObj(r.s) THEN <<"transform">> ELSE <<>>)
                           \o <<"predict", "predict_proba", "format">>,
              !.out = "200", !.pc = "done"]

\* features = DataFrame(row in feature_order); `if scaler is not None:` features
\* = scaler.transform(features); model.predict(features);
\* model.predict_proba(features); the formatted prediction is the response.
Inference(r) ==
    [r EXCEPT !.columns = feature_order(r.d),
              !.row = IF IsObj(r.s) THEN "scaled" ELSE "raw",
              !.transforms = IF IsObj(r.s) THEN 1 ELSE 0,
              !.labelRow = IF IsObj(r.s) THEN "scaled" ELSE "raw",
              !.probaRow = IF IsObj(r.s) THEN "scaled" ELSE "raw",
              !.steps = r.steps \o <<"frame">> \o (IF IsObj(r.s) THEN <<"transform">> ELSE <<>>)
                           \o <<"predict", "predict_proba", "format">>,
              !.out = "200", !.pc = "done"]

\* The route body after load_model and load_scaler have returned, when no call
\* of it raises.
predict_infer(t) ==
    LET r == th[t] IN
    /\ r.pc = "pr_infer"
    /\ th' = [th EXCEPT ![t] = Inference(r)]
    /\ UNCHANGED <<caches, disk, hist>>

\* The same body when scaler.transform, model.predict or model.predict_proba
\* raises: the calls before it were made, `except Exception` answers 500 with
\* str(e).
InferenceRaises(r, at) ==
    LET scaled == IF IsObj(r.s) /\ at # "transform" THEN "scaled" ELSE "raw"
    IN ServerError([r EXCEPT !.columns = feature_order(r.d),
                             !.row = scaled,
                             !.transforms = IF IsObj(r.s) THEN 1 ELSE 0,
                             !.labelRow = IF at = "predict_proba" THEN scaled ELSE "none",
                             !.steps = r.steps \o <<"frame">>
                                          \o (IF IsObj(r.s) THEN <<"transform">> ELSE <<>>)
                                          \o (IF at = "transform" THEN <<>>
                                              ELSE IF at = "predict" THEN <<"predict">>
                                              ELSE <<"predict", "predict_proba">>)],
                   "ValueError")

predict_raises(t) ==
    LET r == th[t] IN
    /\ r.pc = "pr_infer"
    /\ \E at \in {"transform", "predict", "predict_proba"} :
          /\ at = "transform" => IsObj(r.s)
          /\ th' = [th EXCEPT ![t] = InferenceRaises(r, at)]
    /\ UNCHANGED <<caches, disk, hist>>

\* -------------------------------------------------------- get_shap_explainer
\* The call is entered and tests `disease_name not in self._shap_explainers`.
EnterGetExplainer(r) ==
    [r EXCEPT !.pc = IF Has(_shap_explainers, r.d) THEN "ge_return" ELSE "ge_build",
              !.after = firstExpl[r.d]]

\* shap.Explainer(model): a new explainer wrapping the model, or an exception
\* (the library cannot explain every model); the exception leaves the method.
get_shap_explainer_build(t) ==
    LET r == th[t] IN
    /\ r.pc = "ge_build"
    /\ \/ th' = [th EXCEPT ![t] = [r EXCEPT !.e = [id |-> Fresh(ExplainerIds(r.d)), model |-> r.m],
                                            !.built = TRUE, !.pc = "ge_insert"]]
       \/ th' = [th EXCEPT ![t] = [r EXCEPT !.pc = "done", !.out = "raised", !.err = "ExplainerError"]]
    /\ UNCHANGED <<caches, disk, firstModel, firstExpl, plSaw, changed>>

\* self._shap_explainers[disease_name] = <the new explainer>
get_shap_explainer_insert(t) ==
    LET r == th[t] IN
    /\ r.pc = "ge_insert"
    /\ _shap_explainers' = Put(_shap_explainers, r.d, r.e)
    /\ th' = [th EXCEPT ![t] = [r EXCEPT !.e = NoExplainer, !.pc = "ge_return"]]
    /\ UNCHANGED <<_models, _scalers, SHAP_EXPLAINER_CACHE, disk, hist>>

\* return self._shap_explainers[disease_name]
get_shap_explainer_return(t) ==
    LET r == th[t] IN
    /\ r.pc = "ge_return"
    /\ IF Has(_shap_explainers, r.d)
       THEN /\ th' = [th EXCEPT ![t] = [r EXCEPT !.pc = "done", !.out = "ok", !.e = _shap_explainers[r.d]]]
            /\ firstExpl' = [firstExpl EXCEPT ![r.d] = TRUE]
       ELSE /\ th' = [th EXCEPT ![t] = [r EXCEPT !.pc = "done", !.out = "raised", !.err = "KeyError"]]
            /\ firstExpl' = firstExpl
    /\ UNCHANGED <<caches, disk, firstModel, plSaw, changed>>

\* ----------------------------------------------------- calculate_shap_values
\* The call is entered and tests `disease_name not in SHAP_EXPLAINER_CACHE`.
EnterExplain(r) ==
    [r EXCEPT !.pc = IF Has(SHAP_EXPLAINER_CACHE, r.d) THEN "cs_lookup" ELSE "cs_build",
              !.after = firstExpl[r.d]]

\* Variant: no except clause, the exception leaves the function.
ExplainFailedRaises(r) ==
    [r EXCEPT !.pc = "done", !.out = "raised", !.err = "ExplainerError", !.e = NoExplainer,
              !.ranked = <<>>]

\* except Exception: ... return []
ExplainFailed(r) == [r EXCEPT !.pc = "done", !.out = "empty", !.e = NoExplainer, !.ranked = <<>>]

\* shap.Explainer(model) inside the try block
calculate_shap_values_build(t) ==
    LET r == th[t] IN
    /\ r.pc = "cs_build"
    /\ \/ th' = [th EXCEPT ![t] = [r EXCEPT !.e = [id |-> Fresh(ExplainerIds(r.d)), model |-> r.m],
                                            !.built = TRUE, !.pc = "cs_insert"]]
       \/ th' = [th EXCEPT ![t] = ExplainFailed(r)]
    /\ UNCHANGED <<caches, disk, firstModel, firstExpl, plSaw, changed>>

\* SHAP_EXPLAINER_CACHE[disease_name] = <the new explainer>
calculate_shap_values_insert(t) ==
    LET r == th[t] IN
    /\ r.pc = "cs_insert"
    /\ SHAP_EXPLAINER_CACHE' = Put(SHAP_EXPLAINER_CACHE, r.d, r.e)
    /\ th' = [th EXCEPT ![t] = [r EXCEPT !.e = NoExplainer, !.pc = "cs_lookup"]]
    /\ UNCHANGED <<_models, _scalers, _shap_explainers, disk, hist>>

\* explainer = SHAP_EXPLAINER_CACHE[disease_name]; shap_values = explainer(features_df);
\* the ranked list is returned, or [] when the computation raises.
calculate_shap_values_compute(t) ==
    LET r == th[t] IN
    /\ r.pc = "cs_lookup"
    /\ IF Has(SHAP_EXPLAINER_CACHE, r.d)
       THEN \/ /\ th' = [th EXCEPT ![t] =
                           [r EXCEPT !.pc = "done", !.out = "ok",
                                     !.e = SHAP_EXPLAINER_CACHE[r.d],
                                     !.ranked = ranked(r.feature_names, r.values, r.top_n)]]
               /\ firstExpl' = [firstExpl EXCEPT ![r.d] = TRUE]
            \/ /\ th' = [th EXCEPT ![t] = ExplainFailed(r)]
               /\ firstExpl' = firstExpl
       ELSE /\ th' = [th EXCEPT ![t] = ExplainFailed(r)]
            /\ firstExpl' = firstExpl
    /\ UNCHANGED <<caches, disk, firstModel, plSaw, changed>>

\* ---------------------------------------------------------------- clear_cache
\* A clear() now lies between the start and the end of every other call.
Cleared(r) == [r EXCEPT !.clr = TRUE, !.after = FALSE, !.quiet = FALSE]

\* self._models.clear()
clear_models(t) ==
    /\ th[t].pc = "cl_models"
    /\ _models' = Empty
    /\ th' = [u \in Threads |-> IF u = t THEN [th[t] EXCEPT !.pc = "cl_scalers"] ELSE Cleared(th[u])]
    /\ firstModel' = [d \in Diseases |-> None]
    /\ UNCHANGED <<_scalers, _shap_explainers, SHAP_EXPLAINER_CACHE, disk, firstExpl, plSaw, changed>>

\* self._scalers.clear()
clear_scalers(t) ==
    /\ th[t].pc = "cl_scalers"
    /\ _scalers' = Empty
    /\ th' = [u \in Threads |-> IF u = t THEN [th[t] EXCEPT !.pc = "cl_explainers"] ELSE Cleared(th[u])]
    /\ UNCHANGED <<_models, _shap_explainers, SHAP_EXPLAINER_CACHE, disk, hist>>

\* The module-level dict after ModelManager.clear_cache(): the method never names it.
ModuleCacheAfterClear == SHAP_EXPLAINER_CACHE

\* self._shap_explainers.clear()
clear_explainers(t) ==
    /\ th[t].pc = "cl_explainers"
    /\ _shap_explainers' = Empty
    /\ SHAP_EXPLAINER_CACHE' = ModuleCacheAfterClear
    /\ th' = [u \in Threads |-> IF u = t THEN [th[t] EXCEPT !.pc = "done", !.out = "ok", !.snap = {}]
                                ELSE Cleared(th[u])]
    /\ firstExpl' = [d \in Diseases |-> FALSE]
    /\ UNCHANGED <<_models, _scalers, disk, firstModel, plSaw, changed>>

\* ------------------------------------------------------- the models/ directory
\* A model file is written or removed by something outside the server.
ModelFileChange(d) ==
    /\ diskOps < MaxDiskOps
    /\ diskOps' = diskOps + 1
    /\ modelFile' = [modelFile EXCEPT ![d] = ~modelFile[d]]
    /\ changed' = changed \cup {d}
    /\ UNCHANGED <<caches, scalerFile, th, firstModel, firstExpl, plSaw>>

\* A scaler file is written or removed by something outside the server.
ScalerFileChange(d) ==
    /\ diskOps < MaxDiskOps
    /\ diskOps' = diskOps + 1
    /\ scalerFile' = [scalerFile EXCEPT ![d] = ~scalerFile[d]]
    /\ UNCHANGED <<caches, modelFile, th, hist>>

\* ------------------------------------------------------------- calls arriving
Idle(t) == Serving /\ th[t].pc = "done"

StartGetModel(t, d) ==
    /\ Idle(t)
    /\ th' = [th EXCEPT ![t] = EnterGetModel([Rest EXCEPT !.op = "get_model", !.d = d])]
    /\ UNCHANGED <<caches, disk, hist>>

StartGetScaler(t, d) ==
    /\ Idle(t)
    /\ th' = [th EXCEPT ![t] = EnterGetScaler([Rest EXCEPT !.op = "get_scaler", !.d = d])]
    /\ UNCHANGED <<caches, disk, hist>>

\* clear_cache() is entered; `snap` remembers what was cached at that moment.
StartClear(t) ==
    /\ Idle(t)
    /\ th' = [th EXCEPT ![t] = [Rest EXCEPT !.op = "clear", !.pc = "cl_models", !.snap = Cached]]
    /\ UNCHANGED <<caches, disk, hist>>

\* The bodies sent while the caches are exercised: the schema example, and the
\* example with its first field not a number.
Bodies(d) == {Example(d), WithField(Example(d), required_features(d)[1], Text)}

\* POST /api/predict/<disease>: the validator accepts the body or the route answers
\* 400; an accepted body goes on to load_model.
StartPredict(t, d) ==
    /\ Idle(t)
    /\ \E data \in Bodies(d) :
          th' = [th EXCEPT ![t] = Request([Rest EXCEPT !.op = "predict", !.d = d, !.data = data])]
    /\ UNCHANGED <<caches, disk, hist>>

\* get_shap_explainer(disease, model) with the model the caller got from get_model
StartGetExplainer(t, d) ==
    /\ Idle(t) /\ Has(_models, d)
    /\ th' = [th EXCEPT ![t] = EnterGetExplainer([Rest EXCEPT !.op = "get_shap_explainer", !.d = d,
                                                              !.m = _models[d]])]
    /\ UNCHANGED <<caches, disk, hist>>

\* calculate_shap_values(model, features_df, feature_names, disease)
StartExplain(t, d) ==
    /\ Idle(t) /\ Has(_models, d)
    /\ th' = [th EXCEPT ![t] = EnterExplain([Rest EXCEPT !.op = "calculate_shap_values", !.d = d,
                                                         !.m = _models[d]])]
    /\ UNCHANGED <<caches, disk, hist>>

\* ------------------------------------------------------------------ startup
\* Module import leaves the singleton's dicts empty; lifespan() then calls
\* preload_all_models() on the main thread before any request is served.
Init ==
    /\ _models = Empty
    /\ _scalers = Empty
    /\ _shap_explainers = Empty
    /\ SHAP_EXPLAINER_CACHE = Empty
    /\ modelFile \in [Diseases -> BOOLEAN]
    /\ scalerFile \in [Diseases -> BOOLEAN]
    /\ diskOps = 0
    /\ firstModel = [d \in Diseases |-> None]
    /\ firstExpl = [d \in Diseases |-> FALSE]
    /\ plSaw = [d \in Diseases |-> "untried"]
    /\ changed = {}
    /\ th = [t \in Threads |->
               IF t = Main
               THEN EnterGetModel([Rest EXCEPT !.op = "preload", !.i = 1, !.d = PreloadOrder[1]])
               ELSE Rest]

\* The server once lifespan() has yielded, when the directory held the files mf
\* (models) and sf (scalers) throughout startup.  StartupLemma checks it against
\* preload_all itself.
Preloaded(mf, sf) ==
    /\ _models = [d \in {x \in Diseases : mf[x]} |-> 1]
    /\ _scalers = [d \in {x \in Diseases : mf[x]} |-> IF sf[d] THEN 1 ELSE None]
    /\ _shap_explainers = Empty
    /\ SHAP_EXPLAINER_CACHE = Empty
    /\ modelFile = mf
    /\ scalerFile = sf
    /\ diskOps = 0
    /\ firstModel = [d \in Diseases |-> IF mf[d] THEN 1 ELSE None]
    /\ firstExpl = [d \in Diseases |-> FALSE]
    /\ plSaw = [d \in Diseases |-> IF mf[d] THEN "present" ELSE "absent"]
    /\ changed = {}

\* The main thread once preload_all has returned.
PreloadDone == [Rest EXCEPT !.op = "preload", !.i = Len(PreloadOrder),
                            !.d = PreloadOrder[Len(PreloadOrder)], !.out = "ok"]

Started(mf, sf) ==
    /\ Preloaded(mf, sf)
    /\ th = [t \in Threads |-> IF t = Main THEN PreloadDone ELSE Rest]

\* The cache code is the same for every disease_name and touches only that key of
\* each dict, so the served requests are drawn for one disease; clear_cache and
\* preload_all act on all three.
Asked == {"heart_disease"}

AllFiles == [d \in Diseases |-> TRUE]
\* The directory holding the files of the first k diseases only (one directory
\* for each number of files present).
FirstFiles(k) == [d \in Diseases |-> \E j \in 1..k : PreloadOrder[j] = d]

\* ----------------------------------------------------------- specifications
\* Startup, followed by get_model requests: preload_all and what it leaves behind.
NextBoot ==
    \/ \E t \in Threads : get_model_load(t)
    \/ \E t \in Threads : get_model_insert(t)
    \/ \E t \in Threads : get_model_return(t)
    \/ get_scaler_load(Main)
    \/ get_scaler_insert(Main)
    \/ get_scaler_return(Main)
    \/ \E d \in Diseases : ModelFileChange(d)
    \/ \E d \in Diseases : ScalerFileChange(d)
    \/ \E t \in Workers, d \in Asked : StartGetModel(t, d)

SpecBoot == Init /\ [][NextBoot]_vars

\* The model dict while requests are served: get_model, clear_cache and the
\* model files.  No other operation reads or writes _models.
InitModels == \E k \in {0, Len(PreloadOrder)} : Started(FirstFiles(k), AllFiles)

NextModels ==
    \/ \E t \in Workers, d \in Asked : StartGetModel(t, d)
    \/ \E t \in Workers : get_model_load(t)
    \/ \E t \in Workers : get_model_insert(t)
    \/ \E t \in Workers : get_model_return(t)
    \/ \E t \in Workers : StartClear(t)
    \/ \E t \in Workers : clear_models(t)
    \/ \E t \in Workers : clear_scalers(t)
    \/ \E t \in Workers : clear_explainers(t)
    \/ \E d \in Asked : ModelFileChange(d)

SpecModels == InitModels /\ [][NextModels]_vars

\* The explainer dicts while requests are served: both explainer entry points,
\* get_model (which supplies their model argument) and clear_cache.
InitExplainers == Started(AllFiles, AllFiles)

NextExplainers ==
    \/ \E t \in Workers, d \in Asked : StartGetModel(t, d)
    \/ \E t \in Workers : get_model_load(t)
    \/ \E t \in Workers : get_model_insert(t)
    \/ \E t \in Workers : get_model_return(t)
    \/ \E t \in Workers, d \in Asked : StartGetExplainer(t, d)
    \/ \E t \in Workers : get_shap_explainer_build(t)
    \/ \E t \in Workers : get_shap_explainer_insert(t)
    \/ \E t \in Workers : get_shap_explainer_return(t)
    \/ \E t \in Workers, d \in Asked : StartExplain(t, d)
    \/ \E t \in Workers : calculate_shap_values_build(t)
    \/ \E t \in Workers : calculate_shap_values_insert(t)
    \/ \E t \in Workers : calculate_shap_values_compute(t)
    \/ \E t \in Workers : StartClear(t)
    \/ \E t \in Workers : clear_models(t)
    \/ \E t \in Workers : clear_scalers(t)
    \/ \E t \in Workers : clear_explainers(t)

SpecExplainers == InitExplainers /\ [][NextExplainers]_vars

\* The scaler dict while requests are served: get_scaler, the predict routes
\* (load_model, load_scaler, inference), clear_cache and the scaler files.
NoFiles == FirstFiles(0)

InitScalers == \E sf \in {AllFiles, NoFiles} : Started(AllFiles, sf)

NextScalers ==
    \/ \E t \in Workers, d \in Asked : StartGetScaler(t, d)
    \/ \E t \in Workers, d \in Asked : StartPredict(t, d)
    \/ \E t \in Workers : get_model_load(t)
    \/ \E t \in Workers : get_model_insert(t)
    \/ \E t \in Workers : get_model_return(t)
    \/ \E t \in Workers : get_scaler_load(t)
    \/ \E t \in Workers : get_scaler_insert(t)
    \/ \E t \in Workers : get_scaler_return(t)
    \/ \E t \in Workers : predict_infer(t)
    \/ \E t \in Workers : StartClear(t)
    \/ \E t \in Workers : clear_models(t)
    \/ \E t \in Workers : clear_scalers(t)
    \/ \E t \in Workers : clear_explainers(t)
    \/ \E d \in Asked : ScalerFileChange(d)

SpecScalers == InitScalers /\ [][NextScalers]_vars

\* The validators are functions of their argument: a worker is about to call
\* the validator of one disease on one drawn input mapping.
Caller == CHOOSE t \in Workers : \A u \in Workers : t <= u

InitValidate ==
    /\ Preloaded(AllFiles, AllFiles)
    /\ \E d \in Diseases : \E c \in Changes(d) : \E extras \in SUBSET {Undeclared} :
          th = [t \in Threads |->
                  IF t = Main THEN PreloadDone
                  ELSE IF t = Caller
                       THEN [Rest EXCEPT !.op = "validate", !.pc = "va_check", !.d = d,
                                         !.data = WithExtras(Apply(d, c, MaxChanged), extras)]
                       ELSE Rest]

NextValidate == \E t \in Workers : validate_call(t)

SpecValidate == InitValidate /\ [][NextValidate]_vars

\* A validator called on an input mapping and then on the mapping it returned.
NextValidateTwice ==
    \/ \E t \in Workers : validate_call(t)
    \/ \E t \in Workers : validate_again(t)

SpecValidateTwice == InitValidate /\ [][NextValidateTwice]_vars

\* One predict request from its first line to its response: the body is the
\* schema example with at most one field changed, the directory held all or
\* none of the model files and of the scaler files at startup, and files may
\* change while the request runs.
OneChange(d) ==
    {Example(d)} \cup
    UNION {{WithField(Example(d), required_features(d)[i], v) : v \in Probes(d, required_features(d)[i])} :
              i \in 1..Len(required_features(d))}

InitPredict ==
    /\ \E mf \in {AllFiles, NoFiles} : \E sf \in {AllFiles, NoFiles} : Preloaded(mf, sf)
    /\ \E d \in Diseases : \E data \in OneChange(d) :
          th = [t \in Threads |->
                  IF t = Main THEN PreloadDone
                  ELSE IF t = Caller
                       THEN [Rest EXCEPT !.op = "predict", !.pc = "pr_validate", !.d = d,
                                         !.data = data]
                       ELSE Rest]

NextPredict ==
    \/ \E t \in Workers : predict_validate(t)
    \/ \E t \in Workers : get_model_load(t)
    \/ \E t \in Workers : get_model_insert(t)
    \/ \E t \in Workers : get_model_return(t)
    \/ \E t \in Workers : get_scaler_load(t)
    \/ \E t \in Workers : get_scaler_insert(t)
    \/ \E t \in Workers : get_scaler_return(t)
    \/ \E t \in Workers : predict_infer(t)
    \/ \E t \in Workers : predict_raises(t)
    \/ \E d \in Diseases : ModelFileChange(d)
    \/ \E d \in Diseases : ScalerFileChange(d)

SpecPredict == InitPredict /\ [][NextPredict]_vars

\* The formatter is a function of its arguments: a worker is about to call it
\* with a label and the probability pair of a binary classifier.
\* A disease name and a tier that the table `messages` does not hold.
Unlisted == "malaria"
Critical == "Critical"

\* The probabilities at the ends of the tiers.
TierEdges == {0, (4 * Unit) \div 10, (7 * Unit) \div 10, Unit}

InitFormat ==
    /\ Preloaded(AllFiles, AllFiles)
    /\ \/ \E d \in Diseases \cup {Unlisted} : \E prediction \in {0, 1} : \E p \in Probabilities :
             th = [t \in Threads |->
                     IF t = Main THEN PreloadDone
                     ELSE IF t = Caller
                          THEN [Rest EXCEPT !.op = "format_prediction_response", !.pc = "fm_call",
                                            !.d = d, !.prediction = prediction,
                                            !.probability = <<Unit - p, p>>]
                          ELSE Rest]
       \/ \E d \in Diseases \cup {Unlisted} : \E l \in Tiers \cup {Critical} : \E p \in TierEdges :
             th = [t \in Threads |->
                     IF t = Main THEN PreloadDone
                     ELSE IF t = Caller
                          THEN [Rest EXCEPT !.op = "get_risk_message", !.pc = "rm_call",
                                            !.d = d, !.tier = l,
                                            !.probability = <<Unit - p, p>>]
                          ELSE Rest]

NextFormat ==
    \/ \E t \in Workers : format_call(t)
    \/ \E t \in Workers : risk_message_call(t)

SpecFormat == InitFormat /\ [][NextFormat]_vars

\* One calculate_shap_values call from its first line to its return: the row
\* has up to MaxFeatures features, named as the route names them, with drawn
\* attributions; top_n is drawn too, -1 included.
Attributions == {-5, -2, -1, 0, 1, 2, 5}

Rows == UNION {[1..n -> Attributions] : n \in 0..MaxFeatures}

InitExplain ==
    /\ Preloaded(AllFiles, AllFiles)
    /\ \E d \in Asked : \E values \in Rows : \E top_n \in -1..MaxTop :
          th = [t \in Threads |->
                  IF t = Main THEN PreloadDone
                  ELSE IF t = Caller
                       THEN EnterExplain([Rest EXCEPT !.op = "calculate_shap_values", !.d = d,
                                                      !.m = _models[d],
                                                      !.feature_names = SubSeq(feature_order(d), 1, Len(values)),
                                                      !.values = values, !.top_n = top_n])
                       ELSE Rest]

NextExplain ==
    \/ \E t \in Workers : calculate_shap_values_build(t)
    \/ \E t \in Workers : calculate_shap_values_insert(t)
    \/ \E t \in Workers : calculate_shap_values_compute(t)

SpecExplain == InitExplain /\ [][NextExplain]_vars

\* In SpecBoot: when startup has ended and the directory never changed, the
\* server is in the state Started describes.
StartupLemma ==
    (Serving /\ diskOps = 0 /\ \A t \in Workers : th[t] = Rest)
        => Started(modelFile, scalerFile)

\* ===================================================================== claims
Done(t, op) == th[t].op = op /\ th[t].pc = "done"

\* C1 (as stated): after the first successful get_model(d), every later
\* get_model(d) with no clear() in between returns the identical object and
\* reads nothing from storage.
C1_LaterCallsReturnFirstObject ==
    \A t \in Workers :
        (Done(t, "get_model") /\ th[t].after)
            => /\ th[t].out = "ok"
               /\ th[t].m = firstModel[th[t].d]
               /\ ~th[t].read

\* C3: a get_model(d) that finds d uncached and the model file absent ends in
\* FileNotFoundError (ArtifactNotFound), returns no object and leaves _models as
\* it was; when the file is there the same step loads it, whatever failed before.
C3_MissingModelRaises ==
    [][\A t \in Workers :
          (th[t].pc = "gm_load" /\ th'[t].pc # "gm_load")
              => IF modelFile[th[t].d]
                 THEN th'[t].pc = "gm_insert" /\ IsObj(th'[t].tmp)
                 ELSE /\ th'[t].pc = "done"
                      /\ th'[t].out = "FileNotFoundError"
                      /\ th'[t].m = None
                      /\ _models' = _models]_vars

\* C3 witness: one call failed on the missing file and left d uncached; after the
\* file appeared another call for the same disease loaded it.
C3_Witness ==
    \E t, u \in Workers :
        /\ Done(t, "get_model") /\ th[t].out = "FileNotFoundError" /\ th[t].sawAbsent
        /\ Done(u, "get_model") /\ th[u].out = "ok" /\ th[u].read
        /\ th[u].d = th[t].d

\* C5: preload_all always runs to completion; a disease whose model file it found
\* is left with a model entry and a scaler entry; a disease it failed on is left
\* uncached, and while its model file stays missing every request for it ends in
\* FileNotFoundError (ArtifactNotFound).
C5_PreloadNeverRaises ==
    Serving =>
        /\ th[Main].out = "ok"
        /\ \A d \in Diseases :
              /\ plSaw[d] # "untried"
              /\ plSaw[d] = "present" => Has(_models, d) /\ Has(_scalers, d)
              /\ (plSaw[d] = "absent" /\ d \notin changed)
                    => /\ ~Has(_models, d)
                       /\ \A t \in Workers :
                             (Done(t, "get_model") /\ th[t].d = d)
                                 => th[t].out = "FileNotFoundError"

\* C5 witness: startup is over, one disease was preloaded, another failed, and a
\* request for the failed one has ended in FileNotFoundError.
C5_Witness ==
    /\ Serving
    /\ \E d1, d2 \in Diseases :
          /\ plSaw[d1] = "present" /\ Has(_models, d1) /\ Has(_scalers, d1)
          /\ plSaw[d2] = "absent" /\ d2 \notin changed
          /\ \E t \in Workers :
                Done(t, "get_model") /\ th[t].d = d2 /\ th[t].out = "FileNotFoundError"

\* C6: with no clear() since it began, a get_model call fails only if it found
\* the model file absent; once no load of d is in flight the cache holds an
\* entry for d, and a call begun from then on returns that entry without
\* loading.
C6_RacingLoadsConverge ==
    \A t \in Workers :
        (Done(t, "get_model") /\ ~th[t].clr)
            => /\ ~th[t].sawAbsent => th[t].out = "ok"
               /\ (th[t].out = "ok" /\ ~Loading(th[t].d)) => Has(_models, th[t].d)
               /\ th[t].quiet => /\ th[t].out = "ok"
                                 /\ th[t].m = _models[th[t].d]
                                 /\ ~th[t].read

\* C6 witness: two calls raced on the first access, each loaded its own object,
\* both returned, and the cache holds exactly the object inserted last.
C6_Witness ==
    \E t, u \in Workers :
        /\ t # u /\ th[t].d = th[u].d
        /\ Done(t, "get_model") /\ th[t].read /\ th[t].out = "ok" /\ ~th[t].clr
        /\ Done(u, "get_model") /\ th[u].read /\ th[u].out = "ok" /\ ~th[u].clr
        /\ th[t].m # th[u].m
        /\ _models[th[t].d] \in {th[t].m, th[u].m}

C2_ClearEvictsEverything ==
    [][\A t \in Workers :
          (th[t].pc = "cl_explainers" /\ th'[t].pc = "done")
              => \A x \in th[t].snap : x \notin Cached']_vars

ExplainerCall(t) ==
    th[t].pc = "done" /\ th[t].op \in {"get_shap_explainer", "calculate_shap_values"}

\* C7 (as stated): between process start (or a clear()) and the next clear() an
\* explainer is constructed at most once per disease: a get_explainer or explain
\* call made after an earlier one for that disease has returned reuses its
\* explainer and constructs nothing.
C7_OneExplainerPerDisease ==
    \A t \in Workers : (ExplainerCall(t) /\ th[t].after) => ~th[t].built

\* ----------------------------------------------------------- validator claims
Names(seq) == {seq[i] : i \in 1..Len(seq)}
\* The required names that are no key of the input of t's call.
Gone(t) == Names(required_features(th[t].d)) \ DOMAIN th[t].data
\* The names a MissingFields rejection lists after its prefix.
Listed(res) == Tail(res.error_message)

\* C8: when the input lacks a required field, the validator returns (raising
\* nothing) a MissingFields rejection listing exactly the absent required names,
\* each once, whatever the present fields hold.
C8_MissingFieldsExact ==
    \A t \in Workers :
        (Done(t, "validate") /\ Gone(t) # {})
            => /\ ~th[t].res.is_valid
               /\ th[t].res.raised = "none"
               /\ th[t].res.kind = "MissingFields"
               /\ Names(Listed(th[t].res)) = Gone(t)
               /\ Len(Listed(th[t].res)) = Cardinality(Gone(t))

\* C8 witness: one required field is absent and a present field holds a value no
\* conversion accepts; the rejection lists the absent field alone.
C8_Witness ==
    \E t \in Workers :
        /\ Done(t, "validate")
        /\ \E f \in Gone(t) : Gone(t) = {f} /\ Listed(th[t].res) = <<f>>
        /\ \E g \in DOMAIN th[t].data : th[t].data[g].k \in {"None", "list", "text"}
        /\ th[t].res.kind = "MissingFields"

\* Field f of the input violates its own constraint in the validator of d: its
\* conversion fails, or the converted value is outside a bound tested for f.
Violates(d, f, data) ==
    LET own == SelectSeq(checks_of(d), LAMBDA c : c.f = f)
        r == IF own[1].conv = "float" THEN float(data[f]) ELSE int(data[f])
    IN \/ r.err # "none"
       \/ \E i \in 1..Len(own) :
             (\E n \in own[i].lo : Less(r.v, n)) \/ (\E n \in own[i].hi : Greater(r.v, n))

Violating(t) == {f \in Names(required_features(th[t].d)) : Violates(th[t].d, f, th[t].data)}
\* The violating field that comes first in required_features.
FirstViolating(t) ==
    LET req == required_features(th[t].d)
        i == CHOOSE j \in 1..Len(req) :
                 req[j] \in Violating(t) /\ \A k \in 1..(j - 1) : req[k] \notin Violating(t)
    IN req[i]

\* C9 (as stated): when all required fields are present and two or more fields
\* violate their constraints, the validator reports exactly one violation, that
\* of the violating field that comes first in the declared field order.
C9_FirstViolationInDeclaredOrder ==
    \A t \in Workers :
        (Done(t, "validate") /\ Gone(t) = {} /\ Cardinality(Violating(t)) >= 2)
            => /\ th[t].res.raised = "none"
               /\ ~th[t].res.is_valid
               /\ th[t].res.kind \in {"OutOfRange", "InvalidFormat"}
               /\ th[t].res.field = FirstViolating(t)

\* The value satisfies the declared field: a number of the declared type within
\* ge= and le=.
Satisfies(s, v) ==
    /\ v.k \in {"int", "float", "str"}
    /\ s.type = "int" => v.x % 2 = 0
    /\ \A n \in s.ge : v.x >= 2 * n
    /\ \A n \in s.le : v.x <= 2 * n

\* C10 (as stated): with all 32 fields present the parkinsons validator accepts
\* exactly the inputs whose every field satisfies the declared bound table
\* (MoCA in [0,30] included).
C10_ParkinsonsBoundTable ==
    \A t \in Workers :
        (Done(t, "validate") /\ th[t].d = "parkinsons" /\ Gone(t) = {})
            => (th[t].res.is_valid
                  <=> \A i \in 1..Len(ParkinsonsInput) :
                         Satisfies(ParkinsonsInput[i], th[t].data[ParkinsonsInput[i].f]))

\* Every field of t's input satisfies the declared table of t's disease.
InTable(t) ==
    \A i \in 1..Len(InputSchema(th[t].d)) :
        Satisfies(InputSchema(th[t].d)[i], th[t].data[InputSchema(th[t].d)[i].f])

\* C11 (as stated): with all 13 fields present the heart_disease validator
\* accepts exactly the inputs whose every field satisfies the bound table (age
\* in [0,120], sex in {0,1}, cp in 0..3, trestbps in [80,200], chol in [100,600],
\* fbs in {0,1}, restecg in 0..2, thalach in [60,220], exang in {0,1}, slope in
\* 0..2, ca and thal in 0..3, oldpeak any number); trestbps = 79 is rejected.
C11_HeartDiseaseBoundTable ==
    \A t \in Workers :
        (Done(t, "validate") /\ th[t].d = "heart_disease" /\ Gone(t) = {})
            => /\ th[t].res.is_valid <=> InTable(t)
               /\ th[t].data["trestbps"] = IntV(79) => ~th[t].res.is_valid

\* C12 (as stated): with all 11 fields present the diabetes validator accepts
\* exactly the inputs with AGE in [0,120], Gender in {0,1}, Urea, Cr, HbA1c,
\* Chol, TG, HDL, LDL, VLDL >= 0 and BMI in [0,100].
C12_DiabetesBoundTable ==
    \A t \in Workers :
        (Done(t, "validate") /\ th[t].d = "diabetes" /\ Gone(t) = {})
            => (th[t].res.is_valid <=> InTable(t))

\* Every field of t's input other than f satisfies the declared table.
OthersInTable(t, f) ==
    \A i \in 1..Len(InputSchema(th[t].d)) :
        LET s == InputSchema(th[t].d)[i]
        IN s.f # f => Satisfies(s, th[t].data[s.f])

\* The call of t ended in an OutOfRange rejection about field f.
OutOfRangeNaming(t, f) ==
    /\ ~th[t].res.is_valid /\ th[t].res.raised = "none"
    /\ th[t].res.kind = "OutOfRange" /\ th[t].res.field = f

\* What C13 asks of one call and one declared field s, the other fields being valid.
AtTheBounds(t, s) ==
    /\ \A n \in s.ge \cup s.le : th[t].data[s.f] = IntV(n) => th[t].res.is_valid
    /\ \A n \in s.ge : th[t].data[s.f] = IntV(n - 1) => OutOfRangeNaming(t, s.f)
    /\ \A n \in s.le : th[t].data[s.f] = IntV(n + 1) => OutOfRangeNaming(t, s.f)

\* C13 (as stated): for every disease and every bounded field, an otherwise
\* valid input with the field exactly at a bound is accepted, and with the
\* field one unit outside a bound it is rejected as OutOfRange for that field.
C13_BoundsInclusive ==
    \A t \in Workers :
        (Done(t, "validate") /\ Gone(t) = {})
            => \A i \in 1..Len(InputSchema(th[t].d)) :
                  OthersInTable(t, InputSchema(th[t].d)[i].f)
                      => AtTheBounds(t, InputSchema(th[t].d)[i])
\* The value v returned for declared field s is of the declared type.
OfDeclaredType(s, v) == IF s.type = "int" THEN v.k = "int" ELSE v.k \in {"float", "nan"}
\* The value v lies within the ge= and le= bounds declared for s.
WithinDeclared(s, v) ==
    /\ v.k # "nan"
    /\ \A n \in s.ge : v.x >= 2 * n
    /\ \A n \in s.le : v.x <= 2 * n

\* C14 (as stated): whenever a validator succeeds, the keys of the returned
\* mapping are exactly the declared schema fields (extra input keys dropped) and
\* every value is of its declared numeric type and within its declared bound.
C14_OutputDeclaredAndBounded ==
    \A t \in Workers :
        (Done(t, "validate") /\ th[t].res.is_valid)
            => LET schema == InputSchema(th[t].d)
                   out == th[t].res.processed_data
               IN /\ DOMAIN out = {schema[i].f : i \in 1..Len(schema)}
                  /\ \A i \in 1..Len(schema) :
                        /\ OfDeclaredType(schema[i], out[schema[i].f])
                        /\ WithinDeclared(schema[i], out[schema[i].f])
\* The fields of t's input holding a value no numeric conversion accepts: a str
\* that is no numeral, None, a list.
NonCoercible(t) ==
    {f \in Names(required_features(th[t].d)) \cap DOMAIN th[t].data :
        th[t].data[f].k \in {"text", "None", "list"}}

\* C15 (as stated): a validator never raises; whatever the input mapping it
\* returns the validated features or a structured rejection, and an input whose
\* only fault is a field that cannot be coerced is rejected as InvalidFormat.
C15_ValidateNeverRaises ==
    \A t \in Workers :
        Done(t, "validate")
            => /\ th[t].res.raised = "none"
               /\ \A f \in NonCoercible(t) :
                     (Gone(t) = {} /\ OthersInTable(t, f))
                         => (~th[t].res.is_valid /\ th[t].res.kind = "InvalidFormat")

\* ------------------------------------------------------------- predict claims
\* The body of t's predict request is not accepted by the validator.
FailsValidation(t) == th[t].op = "predict" /\ ~validate(th[t].d, th[t].data).is_valid

NoRepeat(seq) == \A i, j \in 1..Len(seq) : i # j => seq[i] # seq[j]

\* The steps a request has made when load_model, load_scaler or a call of the
\* inference body raised: nothing follows the call that raised.
EndsAtFailure(r) ==
    \/ r.steps = <<"validate", "load_model">>
    \/ r.steps = <<"validate", "load_model", "load_scaler">>
    \/ /\ Len(r.steps) > 3
       /\ r.steps[Len(r.steps)] \in {"transform", "predict", "predict_proba"}

\* C17: a prediction request whose input passes validation and in which artifact
\* retrieval, scaling or the model call fails ends in one internal-failure
\* response carrying the failure description, every step made at most once and
\* none after the failure; a rejection of the validator is answered as a
\* rejection, never as an internal failure.
C17_FailureAnsweredOnce ==
    \A t \in Workers :
        Done(t, "predict")
            => /\ NoRepeat(th[t].steps)
               /\ th[t].res.is_valid
                     => \/ th[t].out = "200" /\ th[t].err = "none"
                        \/ /\ th[t].out = "500"
                           /\ th[t].err \in {"FileNotFoundError", "KeyError", "ValueError"}
                           /\ th[t].detail = <<th[t].err>>
                           /\ EndsAtFailure(th[t])
               /\ (~th[t].res.is_valid /\ th[t].res.raised = "none")
                     => th[t].out = "400" /\ th[t].detail = th[t].res.error_message

\* C17 witness: an accepted body whose model file was missing at load_model was
\* answered 500 with that failure right after the one load attempt.
C17_Witness ==
    \E t \in Workers :
        /\ Done(t, "predict") /\ th[t].res.is_valid
        /\ th[t].out = "500" /\ th[t].detail = <<"FileNotFoundError">>
        /\ th[t].sawAbsent /\ th[t].steps = <<"validate", "load_model">>

\* Step a comes before step b in the sequence.
Before(seq, a, b) ==
    \E i, j \in 1..Len(seq) : i < j /\ seq[i] = a /\ seq[j] = b

\* C18: a predict request that got a scaler from the cache applies its transform
\* to the assembled row exactly once, before the model is invoked; one that got
\* no scaler gives the model the row as assembled; predict and predict_proba
\* are both given that same row.
C18_ScaledOnceSameRow ==
    \A t \in Workers :
        (Done(t, "predict") /\ th[t].out = "200")
            => /\ IsObj(th[t].s)
                     => /\ th[t].transforms = 1 /\ th[t].row = "scaled"
                        /\ Before(th[t].steps, "transform", "predict")
                        /\ Before(th[t].steps, "transform", "predict_proba")
               /\ ~IsObj(th[t].s)
                     => /\ th[t].transforms = 0 /\ th[t].row = "raw"
                        /\ \A i \in 1..Len(th[t].steps) : th[t].steps[i] # "transform"
               /\ th[t].labelRow = th[t].row
               /\ th[t].probaRow = th[t].row

\* C18 witness: a request answered 200 with a cached scaler; label and
\* probabilities came from the row transformed once.
C18_Witness ==
    \E t \in Workers :
        /\ Done(t, "predict") /\ th[t].out = "200" /\ IsObj(th[t].s)
        /\ Has(_scalers, th[t].d) /\ _scalers[th[t].d] = th[t].s
        /\ th[t].transforms = 1
        /\ th[t].labelRow = "scaled" /\ th[t].probaRow = "scaled"

\* The request of t assembled its row.
Assembled(t) == Done(t, "predict") /\ th[t].columns # <<>>
\* The field names of the request schema, in declaration order.
SchemaOrder(d) == [i \in 1..Len(InputSchema(d)) |-> InputSchema(d)[i].f]
\* The columns begin with the columns the artifacts are documented to be fit on.
InFitOrder(d, columns) ==
    /\ Len(columns) >= Len(fit_columns(d))
    /\ SubSeq(columns, 1, Len(fit_columns(d))) = fit_columns(d)
    /\ d # "parkinsons" => Len(columns) = Len(fit_columns(d))

Tier(response) == <<response.level, response.color>>

\* C20: the risk tier is decided by the has-disease probability alone, one tier
\* for each probability: High, red from 0.7 on; Moderate, orange from 0.4 up to
\* but not including 0.7; Low, green below 0.4.  So 0.70 is High, 0.6999 is
\* Moderate, 0.40 is Moderate and 0.3999 is Low.
C20_RiskTierByProbability ==
    \A t \in Workers :
        Done(t, "format_prediction_response")
            => LET p == th[t].probability[2]
                   tier == Tier(th[t].response)
               IN /\ 10 * p >= 7 * Unit => tier = <<"High", "red">>
                  /\ (10 * p >= 4 * Unit /\ 10 * p < 7 * Unit) => tier = <<"Moderate", "orange">>
                  /\ 10 * p < 4 * Unit => tier = <<"Low", "green">>
                  /\ p = 7000 * Fine => tier = <<"High", "red">>
                  /\ p = 6999 * Fine => tier = <<"Moderate", "orange">>
                  /\ p = 4000 * Fine => tier = <<"Moderate", "orange">>
                  /\ p = 3999 * Fine => tier = <<"Low", "green">>

\* C20 witness: a probability of exactly 0.70 with the label 0 was formatted as
\* High.
C20_Witness ==
    \E t \in Workers :
        /\ Done(t, "format_prediction_response")
        /\ th[t].probability[2] = 7000 * Fine /\ th[t].prediction = 0
        /\ Tier(th[t].response) = <<"High", "red">>

\* The distance of a value counted in fine units from a result counted in
\* steps of `step` fine units.
Off(x, n, step) == IF x >= n * step THEN x - n * step ELSE n * step - x

\* C21: the response has success = true, the disease name given, has_disease
\* equal to the label, confidence equal to the probability x 100 rounded to two
\* decimals, probability rounded to four decimals (each the nearest value of
\* its precision), and the level, color and message of the tier; for diabetes
\* and a probability of 0.82 the tier is High, the color red and the
\* confidence 82.0.
C21_ResponseFields ==
    \A t \in Workers :
        Done(t, "format_prediction_response")
            => LET p == th[t].probability[2]
                   response == th[t].response
               IN /\ response.success
                  /\ response.disease = th[t].d
                  /\ response.has_disease = th[t].prediction
                  /\ 2 * Off(p, response.confidence, Fine) <= Fine
                  /\ 2 * Off(p, response.probability, Fine) <= Fine
                  /\ response.message = get_risk_message(th[t].d, response.level, p)
                  /\ response.message.raised = "none"
                  /\ response.color = CASE response.level = "High" -> "red"
                                         [] response.level = "Moderate" -> "orange"
                                         [] OTHER -> "green"
                  /\ (th[t].d = "diabetes" /\ p = 8200 * Fine)
                        => /\ Tier(response) = <<"High", "red">>
                           /\ response.confidence = 8200

\* C21 witness: diabetes with the label 1 and a probability one third of a
\* ten-thousandth below 0.82 was formatted as High, red with confidence 82.0.
C21_Witness ==
    \E t \in Workers :
        /\ Done(t, "format_prediction_response")
        /\ th[t].d = "diabetes" /\ th[t].prediction = 1
        /\ th[t].probability[2] = 8200 * Fine - 1
        /\ Tier(th[t].response) = <<"High", "red">>
        /\ th[t].response.confidence = 8200 /\ th[t].response.probability = 8200
        /\ th[t].response.has_disease = 1

\* C22: the risk message is the entry of the disease-by-tier table for the
\* disease and tier given; for a disease or a tier outside the table nothing
\* is raised and the generic message is returned, by get_risk_message and by
\* the formatter.
C22_MessageFromTableOrGeneric ==
    \A t \in Workers :
        /\ Done(t, "get_risk_message")
              => /\ th[t].message.raised = "none"
                 /\ (th[t].d \in Diseases /\ th[t].tier \in Tiers)
                       => th[t].message.text = messages[th[t].d][th[t].tier]
                 /\ (th[t].d \notin Diseases \/ th[t].tier \notin Tiers)
                       => th[t].message = GenericMessage
        /\ Done(t, "format_prediction_response")
              => /\ th[t].response.success /\ th[t].response.message.raised = "none"
                 /\ th[t].d \in Diseases
                       => th[t].response.message.text = messages[th[t].d][th[t].response.level]
                 /\ th[t].d \notin Diseases => th[t].response.message = GenericMessage

\* C22 witness: get_risk_message returned the generic message for a listed
\* disease and a tier outside the table.
C22_Witness ==
    \E t \in Workers :
        /\ Done(t, "get_risk_message")
        /\ th[t].d \in Diseases /\ th[t].tier = Critical
        /\ th[t].message = GenericMessage

\* ------------------------------------------------------------- explain claims
\* C23: calculate_shap_values never raises: when the construction of the
\* explainer or the computation fails, the call returns the empty list; every
\* call ends by returning a list.
C23_ExplainNeverRaises ==
    [][\A t \in Workers :
          LET r == th[t]  q == th'[t] IN
          (r.op = "calculate_shap_values" /\ q # r)
              => /\ q.err = "none"
                 /\ q.out \in {"none", "ok", "empty"}
                 /\ (q.pc = "done" /\ q.out # "ok") => (q.out = "empty" /\ q.ranked = <<>>)
                 /\ (r.pc = "cs_build" /\ q.pc = "done") => q.out = "empty"]_vars

\* C23 witness: the construction of the explainer failed, nothing was cached and
\* the call returned the empty list.
C23_Witness ==
    \E t \in Workers :
        /\ Done(t, "calculate_shap_values") /\ th[t].out = "empty" /\ th[t].err = "none"
        /\ ~th[t].built /\ ~Has(SHAP_EXPLAINER_CACHE, th[t].d)
        /\ th[t].values # <<>>

\* The call of t returned its ranked list.
Explained(t) == Done(t, "calculate_shap_values") /\ th[t].out = "ok"

\* C24: on success with n features and top_n >= 0 the list has min(top_n, n)
\* entries, in non-increasing order of impact, each for a different feature,
\* and no feature left out has a larger impact than a returned one.
C24_TopByImpact ==
    \A t \in Workers :
        (Explained(t) /\ th[t].top_n >= 0)
            => LET out == th[t].ranked
                   n == Len(th[t].values)
                   all == feature_importance(th[t].feature_names, th[t].values)
               IN /\ Len(out) = Min(th[t].top_n, n)
                  /\ \A i \in 1..(Len(out) - 1) : out[i].impact >= out[i + 1].impact
                  /\ \A i, j \in 1..Len(out) : i # j => out[i].feature # out[j].feature
                  /\ \A i \in 1..Len(out) : \E k \in 1..n : out[i] = all[k]
                  /\ \A k \in 1..n :
                        (\A i \in 1..Len(out) : out[i].feature # all[k].feature)
                            => \A i \in 1..Len(out) : all[k].impact <= out[i].impact

\* C24 witness: three features, top_n = 2, and the feature left out is the first
\* of the row.
C24_Witness ==
    \E t \in Workers :
        /\ Explained(t) /\ Len(th[t].values) = 3 /\ th[t].top_n = 2
        /\ Len(th[t].ranked) = 2
        /\ \A i \in 1..2 : th[t].ranked[i].feature # th[t].feature_names[1]
        /\ th[t].ranked[1].impact > th[t].ranked[2].impact

\* The attribution the row holds for a feature.
AttributionOf(t, feature) ==
    th[t].values[CHOOSE i \in 1..Len(th[t].values) : th[t].feature_names[i] = feature]

C26_ClearNeverBreaksACall ==
    \A t \in Workers :
        /\ Done(t, "get_model") => th[t].out \in {"ok", "FileNotFoundError"}
        /\ Done(t, "get_scaler") => th[t].out \in {"ok", "FileNotFoundError"}

\* C27 (as stated): an explainer cached for a disease whose model is cached
\* wraps that cached model, and the explainer a get_shap_explainer or
\* calculate_shap_values call returns or uses wraps the model the call was given;
\* an explainer built from an earlier model object is never used.
C27_ExplainerWrapsCurrentModel ==
    /\ \A d \in Diseases :
           Has(_models, d) =>
               /\ Has(_shap_explainers, d) => _shap_explainers[d].model = _models[d]
               /\ Has(SHAP_EXPLAINER_CACHE, d) => SHAP_EXPLAINER_CACHE[d].model = _models[d]
    /\ \A t \in Workers :
           (Done(t, "get_shap_explainer") \/ Done(t, "calculate_shap_values")) /\ th[t].out = "ok"
               => th[t].e.model = th[t].m

\* Thread t leaves the idle state by entering `op` for disease d in this step.
Enters(t, op, d) ==
    /\ th[t].pc = "done"
    /\ th'[t].pc # "done"
    /\ th'[t].op = op
    /\ th'[t].d = d

\* No clear_cache() has started since thread u's call returned.
NoClearSince(u) ==
    /\ ~th[u].clr
    /\ \A w \in Workers : th[w].op = "clear" => th[w].pc = "done"

\* C28 (as stated): once a get_scaler(d) has returned None and until clear_cache()
\* is called, a get_scaler(d) entered later finds the remembered None and goes
\* to its return without reading storage, whatever the scaler file has become;
\* a get_model(d) entered after one that failed on a missing file goes to
\* storage again.
C28_AbsentScalerRemembered ==
    [][\A u \in Workers, t \in Workers :
          /\ ( /\ Done(u, "get_scaler") /\ th[u].out = "ok" /\ th[u].s = None
               /\ NoClearSince(u)
               /\ Enters(t, "get_scaler", th[u].d) )
                => (th'[t].pc = "gs_return" /\ Has(_scalers, th[u].d) /\ _scalers[th[u].d] = None)
          /\ ( /\ Done(u, "get_model") /\ th[u].out = "FileNotFoundError"
               /\ Enters(t, "get_model", th[u].d) )
                => th'[t].pc = "gm_load"]_vars

\* This step is one of the three statements of clear_cache().
ClearStep ==
    \E t \in Workers : th[t].pc \in {"cl_models", "cl_scalers", "cl_explainers"} /\ th'[t].pc # th[t].pc

\* The entry of disease d is the same before and after the step.
SameEntry(cache, cacheAfter, d) ==
    /\ Has(cache, d) <=> Has(cacheAfter, d)
    /\ Has(cache, d) => cacheAfter[d] = cache[d]

\* An entry cached for disease d before the step is still there, unreplaced.
Kept(cache, cacheAfter, d) == Has(cache, d) => (Has(cacheAfter, d) /\ cacheAfter[d] = cache[d])

\* C29 (as stated): a step of get_model, get_scaler, get_shap_explainer or
\* calculate_shap_values for one disease leaves the model, scaler and explainer
\* entries of every other disease as they were, and no step outside clear_cache()
\* removes or replaces an entry that is cached.
C29_OnlyClearTouchesCachedEntries ==
    [][~ClearStep =>
          \A t \in Workers : th'[t] # th[t] =>
              \A d \in Diseases :
                  /\ d # th'[t].d =>
                        /\ SameEntry(_models, _models', d)
                        /\ SameEntry(_scalers, _scalers', d)
                        /\ SameEntry(_shap_explainers, _shap_explainers', d)
                        /\ SameEntry(SHAP_EXPLAINER_CACHE, SHAP_EXPLAINER_CACHE', d)
                  /\ Kept(_models, _models', d)
                  /\ Kept(_scalers, _scalers', d)
                  /\ Kept(_shap_explainers, _shap_explainers', d)
                  /\ Kept(SHAP_EXPLAINER_CACHE, SHAP_EXPLAINER_CACHE', d)]_vars

\* ------------------------------------------------------ validators, continued
\* C30: a validator call leaves the mapping it was given as it was, and the
\* mapping an accepting call returned, validated again, is accepted with a
\* returned mapping equal to the first one.
C30_ValidateIdempotent ==
    [][\A t \in Workers :
          /\ (th[t].pc = "va_check" /\ th'[t].pc = "done") => th'[t].data = th[t].data
          /\ th'[t].again # NoResult =>
                /\ th'[t].res = th[t].res
                /\ th'[t].again.is_valid
                /\ th'[t].again.processed_data = th'[t].res.processed_data]_vars

\* An accepted mapping whose values the validator converted has been validated again.
C30_Witness ==
    \E t \in Workers :
        /\ th[t].again # NoResult
        /\ th[t].again = th[t].res
        /\ \E f \in DOMAIN th[t].res.processed_data : th[t].data[f] # th[t].res.processed_data[f]
        /\ DOMAIN th[t].data # DOMAIN th[t].res.processed_data
====
